---- MODULE Spec2Model ----
(***************************************************************************)
(* Model of the model-invocation pipeline of MentorMind's backend:         *)
(*   services/retry_handler.py      RetryHandler, AIErrorResponse          *)
(*   services/agent_orchestrator.py AgentOrchestrator pipelines            *)
(*   services/video_processor.py    VideoProcessor.extract_frames          *)
(*                                                                         *)
(* Conventions.  Optional[int] is a set with at most one element ({} is    *)
(* None).  Delays are whole seconds.  A text is a sequence of parts; the   *)
(* part that stands for the text of an exception is one of Msgs, every     *)
(* other part is a literal of the source.                                  *)
(***************************************************************************)
EXTENDS Integers, Sequences, FiniteSets, TLC

\* ------------------------------------------------------------ bounds
MaxAttemptsBound == 3
MaxBaseDelay == 2
MaxDelayBound == 3
MaxRetryAfter == 2
MaxAttemptArg == 3
MaxUnits == 3

\* ------------------------------------------------------------ helpers
None == {}
Some(x) == {x}
Val(o) == CHOOSE x \in o : TRUE
Min(a, b) == IF a <= b THEN a ELSE b

RECURSIVE Pow(_, _)
Pow(b, n) == IF n = 0 THEN 1 ELSE b * Pow(b, n - 1)

\* ------------------------------------------------------------ exceptions
\* Texts an exception may carry (str(e)).
Msgs == {"m1", "m2"}

\* retry_after values a server may send: None, a negative, zero, positives.
OptInts == {None} \cup {Some(n) : n \in (0 - 1)..MaxRetryAfter}

\* Exception classes: those of retry_handler.py, the OpenAI SDK ones the
\* code imports, and Python builtins.
RetryableClasses == {"TimeoutError", "RateLimitError", "ServerError"}

Exceptions ==
         [cls : RetryableClasses, msg : Msgs, retry_after : OptInts,
          status_code : {0}, header : {None}]
    \cup [cls : {"ClientError"}, msg : Msgs, retry_after : {None},
          status_code : {400, 404}, header : {None}]
    \cup [cls : {"AuthenticationError"}, msg : Msgs, retry_after : {None},
          status_code : {401}, header : {None}]
    \cup [cls : {"APITimeoutError"}, msg : Msgs, retry_after : {None},
          status_code : {0}, header : {None}]
    \cup [cls : {"OpenAIRateLimitError"}, msg : Msgs, retry_after : {None},
          status_code : {429}, header : OptInts]
    \cup [cls : {"OpenAIAuthError"}, msg : Msgs, retry_after : {None},
          status_code : {401}, header : {None}]
    \cup [cls : {"APIStatusError"}, msg : Msgs, retry_after : {None},
          status_code : {400, 429, 500, 503}, header : OptInts]
    \cup [cls : {"ConnectionError", "OSError", "ValueError"}, msg : Msgs,
          retry_after : {None}, status_code : {0}, header : {None}]

\* isinstance(error, RetryableError)
IsRetryableError(e) == e.cls \in RetryableClasses
\* isinstance(error, ClientError): AuthenticationError is a subclass
IsClientError(e) == e.cls \in {"ClientError", "AuthenticationError"}
\* isinstance(error, openai.APIStatusError)
IsAPIStatusError(e) ==
    e.cls \in {"APIStatusError", "OpenAIRateLimitError", "OpenAIAuthError"}
\* isinstance(error, (ConnectionError, OSError))
IsOSError(e) == e.cls \in {"ConnectionError", "OSError"}

\* ------------------------------------------------------------ RetryHandler
exponential_base == 2

\* RetryHandler.__init__: the configurations the constructor accepts.
RetryConfigs ==
    { c \in [max_attempts : 1..MaxAttemptsBound,
             base_delay : 1..MaxBaseDelay,
             max_delay : 1..MaxDelayBound] : c.max_delay >= c.base_delay }

\* RetryHandler.should_retry: the isinstance tests in source order.
should_retry(e) ==
    \/ e.cls \in RetryableClasses
    \/ e.cls = "APITimeoutError"
    \/ e.cls = "OpenAIRateLimitError"
    \/ /\ IsAPIStatusError(e)
       /\ \/ (500 <= e.status_code /\ e.status_code < 600)
          \/ e.status_code = 429

get_retry_after(e) ==
    IF IsRetryableError(e) /\ e.retry_after # None THEN e.retry_after
    ELSE IF IsAPIStatusError(e) /\ e.header # None THEN e.header
    ELSE None

calculate_delay_NoCap(cfg, attempt, retry_after) ==
    IF retry_after # None /\ Val(retry_after) > 0
    THEN Val(retry_after)
    ELSE Min(cfg.base_delay * Pow(exponential_base, attempt), cfg.max_delay)

calculate_delay(cfg, attempt, retry_after) ==
    IF retry_after # None /\ Val(retry_after) > 0
    THEN Min(Val(retry_after), cfg.max_delay)
    ELSE Min(cfg.base_delay * Pow(exponential_base, attempt), cfg.max_delay)

\* ------------------------------------------------------------ texts
\* A text is a sequence of parts: a word of a literal of the source, a number
\* formatted into an f-string, the name of an exception's type, or the text
\* of an exception (str(e)).
Lit(w) == [t |-> "lit", s |-> w, n |-> 0]
Num(k) == [t |-> "num", s |-> "", n |-> k]
TypeName(c) == [t |-> "type", s |-> c, n |-> 0]
ExcText(m) == [t |-> "exc", s |-> m, n |-> 0]
Words(ws) == [i \in DOMAIN ws |-> Lit(ws[i])]

\* ------------------------------------------------------------ AIErrorResponse
MsgTimeout ==
    Words(<<"The", "AI", "service", "is", "taking", "too", "long", "to",
            "respond.", "Please", "try", "again.">>)
MsgBusy == Words(<<"The", "AI", "service", "is", "currently", "busy.">>)
MsgUnavailable ==
    Words(<<"The", "AI", "service", "is", "temporarily", "unavailable.",
            "Please", "try", "again", "later.">>)
MsgConfig ==
    Words(<<"AI", "service", "configuration", "error.", "Please", "contact",
            "support.">>)
MsgRequest ==
    Words(<<"There", "was", "a", "problem", "with", "the", "request.",
            "Please", "try", "again.">>)
MsgService ==
    Words(<<"There", "was", "a", "problem", "with", "the", "AI", "service.",
            "Please", "try", "again.">>)
MsgNetwork ==
    Words(<<"Unable", "to", "connect", "to", "the", "AI", "service.",
            "Please", "check", "your", "connection.">>)
MsgUnknown ==
    Words(<<"An", "unexpected", "error", "occurred.", "Please", "try",
            "again", "later.">>)

\* f" Please wait {retry_after} seconds before trying again." when
\* retry_after is truthy (neither None nor 0), else "".
retry_msg(retry_after) ==
    IF retry_after # None /\ Val(retry_after) # 0
    THEN Words(<<"Please", "wait">>) \o <<Num(Val(retry_after))>>
         \o Words(<<"seconds", "before", "trying", "again.">>)
    ELSE <<>>

\* The dataclass AIErrorResponse (success defaults to False).
Report(error_type, user_message, technical_details, retry_after) ==
    [success |-> FALSE, error_type |-> error_type,
     user_message |-> user_message,
     technical_details |-> technical_details, retry_after |-> retry_after]

from_exception_Leaky(e) ==
    Report("unknown", <<ExcText(e.msg)>>,
           <<TypeName(e.cls), Lit(":"), ExcText(e.msg)>>, e.retry_after)

from_exception_DropsRetryAfter(e) ==
    LET td == <<TypeName(e.cls), Lit(":"), ExcText(e.msg)>> IN
    IF e.cls = "TimeoutError" THEN Report("timeout", MsgTimeout, td, None)
    ELSE IF e.cls = "RateLimitError" THEN Report("rate_limit", MsgBusy, td, None)
    ELSE IF e.cls = "ServerError" THEN Report("api", MsgUnavailable, td, None)
    ELSE IF e.cls \in {"AuthenticationError", "OpenAIAuthError"}
         THEN Report("config", MsgConfig, td, None)
    ELSE IF e.cls = "ClientError" THEN Report("api", MsgRequest, td, None)
    ELSE IF e.cls = "APITimeoutError" THEN Report("timeout", MsgTimeout, td, None)
    ELSE IF e.cls = "OpenAIRateLimitError" THEN Report("rate_limit", MsgBusy, td, None)
    ELSE IF e.cls = "APIStatusError"
         THEN Report("api", IF e.status_code >= 500 THEN MsgUnavailable
                            ELSE MsgService, td, None)
    ELSE IF IsOSError(e) THEN Report("network", MsgNetwork, td, None)
    ELSE Report("unknown", MsgUnknown, td, None)

\* AIErrorResponse.from_exception: the isinstance tests in source order.
from_exception(e) ==
    LET td == <<TypeName(e.cls), Lit(":"), ExcText(e.msg)>> IN
    IF e.cls = "TimeoutError"
    THEN Report("timeout", MsgTimeout, td, e.retry_after)
    ELSE IF e.cls = "RateLimitError"
    THEN Report("rate_limit", MsgBusy \o retry_msg(e.retry_after), td,
                e.retry_after)
    ELSE IF e.cls = "ServerError"
    THEN Report("api", MsgUnavailable, td, e.retry_after)
    ELSE IF e.cls = "AuthenticationError"
    THEN Report("config", MsgConfig, td, None)
    ELSE IF IsClientError(e)
    THEN Report("api", MsgRequest, td, None)
    ELSE IF e.cls = "APITimeoutError"
    THEN Report("timeout", MsgTimeout, td, None)
    ELSE IF e.cls = "OpenAIRateLimitError"
    THEN Report("rate_limit", MsgBusy \o retry_msg(e.header), td, e.header)
    ELSE IF e.cls = "OpenAIAuthError"
    THEN Report("config", MsgConfig, td, None)
    ELSE IF IsAPIStatusError(e)
    THEN IF 500 <= e.status_code /\ e.status_code < 600
         THEN Report("api", MsgUnavailable, td, None)
         ELSE Report("api", MsgService, td, None)
    ELSE IF IsOSError(e)
    THEN Report("network", MsgNetwork, td, None)
    ELSE Report("unknown", MsgUnknown, td, None)

\* AIErrorResponse.to_dict: a dict as a function from its keys.
to_dict(r) ==
    LET keys == {"success", "error_type", "user_message"}
                \cup (IF r.retry_after # None THEN {"retry_after"} ELSE {})
    IN [k \in keys |->
           IF k = "success" THEN [b |-> r.success]
           ELSE IF k = "error_type" THEN [s |-> r.error_type]
           ELSE IF k = "user_message" THEN [txt |-> r.user_message]
           ELSE [opt |-> r.retry_after]]

\* ------------------------------------------------------------ state
VARIABLES
    rh,          \* the RetryHandler's configuration (self.max_attempts, ...)
    op,          \* the operation in progress
    ex_pc,       \* RetryHandler.execute: "idle", "calling", "returned", "raised"
    ex_attempt,  \* execute's loop variable `attempt`
    ex_hist,     \* the outcomes of the calls of func made by this execute
    ex_sleeps,   \* the arguments of time.sleep made by this execute
    ex_last_error, \* execute's local `last_error` ({} is None)
    ex_result,   \* what execute returned or raised
    cd_args,     \* the arguments of the last calculate_delay call ({} before any)
    cd_delay,    \* what that call returned
    tr_cur,      \* the last exception classified and translated, with the results
    tr_prev,     \* the one before it
    cp_in,       \* process_content's arguments and what its environment answers
    cp_pc,       \* process_content: "idle", "single", "image", "chunks", "frames", "done"
    cp_unit,     \* the loop index of the chunk or frame being processed (1-based)
    cp_results,  \* chunk_results / frame_analyses
    cp_log,      \* for each unit processed so far, how its retried call ended
    cp_execs,    \* the units for which execute was entered, in order
    cp_out,      \* the dict process_content returned
    qz_in,       \* generate_quiz's arguments and whether QuizAgent's prompt loaded
    qz_pc,       \* generate_quiz: "idle", "cycle", "done"
    qz_attempt,  \* generate_quiz's loop variable `attempt`
    qz_strict,   \* whether `messages` was last built with strict_format=True
    qz_last,     \* how the last generate-and-validate cycle ended
    qz_out,      \* the list generate_quiz returned
    vq_in,       \* the arguments of the last _validate_quiz_question call ({} before any)
    vq_out,      \* what that call returned or raised
    qr_in,       \* how the last QuizQuestion was constructed, and from what
    qr_out,      \* the QuizQuestion constructed (QuizService: the questions kept)
    ps_in,       \* the parser last called and the response text given to it
    ps_out,      \* what that call returned or raised
    ag_in,       \* the combiner last called and the list of results given to it
    ag_out,      \* the dict it returned
    ck_in,       \* the arguments of the last _chunk_document call
    ck_out,      \* the list of chunks it returned
    fs_in,       \* the sampler's configuration and the last call's arguments
    fs_out,      \* the list of frame numbers it returned
    cm_in,       \* the arguments of the last _build_chat_messages call
    cm_out,      \* the list of messages it returned
    ac_files,    \* the agents whose prompt file loads (_load_agent returns one)
    ac_agents,   \* the keys of self._agents
    ac_loaded,   \* self._loaded
    ac_thr,      \* for each thread, where it is in the operation it called
    ac_reloads,  \* the number of reload_agents calls begun
    gw,          \* the NebiusClient: its configuration, _client, _fallback_mode
    gw_call,     \* the last call made to the client and its arguments
    gw_backend,  \* the requests that call sent to the backend, in order
    gw_out,      \* what that call returned or raised
    gw_got,      \* the items the caller has taken from a returned generator
    gw_end,      \* that iteration: "none", "open", "ended", "raised"
    ch_in,       \* process_chat's arguments and whether TutorAgent was loaded
    ch_pc,       \* process_chat: "idle", "executing", "returned"
    ch_calls,    \* the calls of the client's chat_completion it has made
    ch_err,      \* the error its model call failed with ({} when it did not)
    ch_out,      \* the string or generator process_chat returned
    ch_got,      \* the items the caller has taken from a returned generator
    ch_end       \* that iteration: "none", "open", "ended", "raised"

execVars == <<ex_pc, ex_attempt, ex_hist, ex_sleeps, ex_last_error, ex_result>>

pureVars == <<cd_args, cd_delay, tr_cur, tr_prev>>
contentVars == <<cp_in, cp_pc, cp_unit, cp_results, cp_log, cp_execs, cp_out>>
quizVars == <<qz_in, qz_pc, qz_attempt, qz_strict, qz_last, qz_out>>
validatorVars == <<vq_in, vq_out, qr_in, qr_out>>
parserVars == <<ps_in, ps_out>>
aggVars == <<ag_in, ag_out>>
chunkVars == <<ck_in, ck_out>>
samplerVars == <<fs_in, fs_out>>
messageVars == <<cm_in, cm_out>>
cacheVars == <<ac_files, ac_agents, ac_loaded, ac_thr, ac_reloads>>
gatewayVars == <<gw, gw_call, gw_backend, gw_out, gw_got, gw_end>>
chatVars == <<ch_in, ch_pc, ch_calls, ch_err, ch_out, ch_got, ch_end>>
serviceVars == <<samplerVars, messageVars, cacheVars, gatewayVars, chatVars>>
fnVars == <<validatorVars, parserVars, aggVars, chunkVars, serviceVars>>

\* ModelConfig and NebiusConfig: the fields the client reads.  An api_key or
\* a fallback_model_id is None or Some(string); temperatures are in tenths.
ModelConfig(model_id, temperature, max_tokens, fallback_model_id) ==
    [model_id |-> model_id, temperature |-> temperature,
     max_tokens |-> max_tokens, fallback_model_id |-> fallback_model_id]
NebiusConfig(api_key, fb) ==
    [api_key |-> api_key,
     tutor_model |-> ModelConfig("tutor-model", 7, 2048, fb),
     vision_model |-> ModelConfig("vision-model", 5, 2048, fb),
     embedding_model |-> ModelConfig("embedding-model", 7, 2048, fb)]

has_api_key_NotNone(config) == config.api_key # None

\* NebiusConfig.has_api_key
has_api_key(config) ==
    config.api_key # None /\ Len(Val(config.api_key)) > 0

\* NebiusClient._initialize_client; openai_ok is whether `from openai import
\* OpenAI` and the construction of the SDK client succeed.
_initialize_client(config, openai_ok) ==
    IF ~has_api_key(config)
    THEN [config |-> config, client |-> FALSE, fallback_mode |-> TRUE,
          fallback_reason |-> "missing_api_key"]
    ELSE IF openai_ok
    THEN [config |-> config, client |-> TRUE, fallback_mode |-> FALSE,
          fallback_reason |-> "none"]
    ELSE [config |-> config, client |-> FALSE, fallback_mode |-> TRUE,
          fallback_reason |-> "missing_openai_package"]

\* The client of the default configuration with an API key set.
DefaultClient ==
    _initialize_client(NebiusConfig(Some("key"), Some("fallback-model")), TRUE)

\* agent_names of _load_agents, in its order.
agent_names == <<"TutorAgent", "QuizAgent", "ContentAgent">>
AgentNames == {agent_names[i] : i \in DOMAIN agent_names}

\* The threads of the host that call the orchestrator.
NumThreads == 2
Threads == 1..NumThreads
ThreadIdle ==
    [pc |-> "idle", kind |-> "none", arg |-> "", i |-> 0, skipped |-> FALSE,
     out |-> None]

NoResult == [kind |-> "none"]
Returned(v) == [kind |-> "value", val |-> v]
Raised(e) == [kind |-> "error", err |-> e]

\* The taxonomy of section 7: what a failure is, whatever the handler does
\* with it (timeout, rate limit, 5xx, and the SDK's equivalents).
TransientKind(e) ==
    \/ e.cls \in {"TimeoutError", "RateLimitError", "ServerError"}
    \/ e.cls \in {"APITimeoutError", "OpenAIRateLimitError"}
    \/ e.cls = "APIStatusError" /\ e.status_code \in {429, 500, 503}

\* The server's hint carried by an error: its retry_after attribute or its
\* retry-after header.
Hint(e) == IF e.retry_after # None THEN e.retry_after ELSE e.header

CallOk(v) == [ok |-> TRUE, transient |-> FALSE, hint |-> None]
CallFailed(e) == [ok |-> FALSE, transient |-> TransientKind(e), hint |-> Hint(e)]

\* Values func may return, by caller.
PlainValues == {"v1", "v2"}

ExecIdle ==
    /\ ex_pc = "idle"
    /\ ex_attempt = 0
    /\ ex_hist = <<>>
    /\ ex_sleeps = <<>>
    /\ ex_last_error = None
    /\ ex_result = NoResult

\* Entry of RetryHandler.execute: last_error = None, first loop iteration.
ExecEnter ==
    /\ ex_pc' = "calling"
    /\ ex_attempt' = 0
    /\ ex_hist' = <<>>
    /\ ex_sleeps' = <<>>
    /\ ex_last_error' = None
    /\ ex_result' = NoResult

\* `return func(*args, **kwargs)` when func returns v.
ExecReturnsBody(v) ==
    /\ ex_pc = "calling"
    /\ ex_hist' = Append(ex_hist, CallOk(v))
    /\ ex_result' = Returned(v)
    /\ ex_pc' = "returned"
    /\ UNCHANGED <<ex_attempt, ex_sleeps, ex_last_error>>

ExecRaisesBody_OffByOne(e) ==
    /\ ex_pc = "calling"
    /\ ex_hist' = Append(ex_hist, CallFailed(e))
    /\ ex_last_error' = Some(e)
    /\ IF ~should_retry(e) \/ ex_attempt + 1 > rh.max_attempts
       THEN /\ ex_result' = Raised(e)
            /\ ex_pc' = "raised"
            /\ UNCHANGED <<ex_attempt, ex_sleeps>>
       ELSE /\ ex_sleeps' = Append(ex_sleeps,
                   calculate_delay(rh, ex_attempt, get_retry_after(e)))
            /\ ex_attempt' = ex_attempt + 1
            /\ UNCHANGED <<ex_pc, ex_result>>

\* The `except Exception as e` block when func raises e: re-raise when e is
\* not retryable or no attempt is left, else sleep and loop.
ExecRaisesBody(e) ==
    /\ ex_pc = "calling"
    /\ ex_hist' = Append(ex_hist, CallFailed(e))
    /\ ex_last_error' = Some(e)
    /\ IF ~should_retry(e) \/ ex_attempt + 1 >= rh.max_attempts
       THEN /\ ex_result' = Raised(e)
            /\ ex_pc' = "raised"
            /\ UNCHANGED <<ex_attempt, ex_sleeps>>
       ELSE /\ ex_sleeps' = Append(ex_sleeps,
                   calculate_delay(rh, ex_attempt, get_retry_after(e)))
            /\ ex_attempt' = ex_attempt + 1
            /\ UNCHANGED <<ex_pc, ex_result>>

\* ------------------------------------------------------------ Spec
\* RetryHandler.execute called directly with an arbitrary func.
\* Everything but the handler's configuration and the prompt files, before
\* any operation.
Settled ==
    /\ op = "none"
    /\ ExecIdle
    /\ cd_args = None /\ cd_delay = 0
    /\ tr_cur = None /\ tr_prev = None
    /\ cp_in = None /\ cp_pc = "idle" /\ cp_unit = 0
    /\ cp_results = <<>> /\ cp_log = <<>> /\ cp_execs = <<>>
    /\ cp_out = None
    /\ qz_in = None /\ qz_pc = "idle" /\ qz_attempt = 0
    /\ qz_strict = FALSE /\ qz_last = "none" /\ qz_out = None
    /\ vq_in = None /\ vq_out = None /\ qr_in = None /\ qr_out = None
    /\ ps_in = None /\ ps_out = None
    /\ ag_in = None /\ ag_out = None
    /\ ck_in = None /\ ck_out = None
    /\ fs_in = None /\ fs_out = None
    /\ cm_in = None /\ cm_out = None
    /\ ac_agents = {} /\ ac_loaded = FALSE /\ ac_reloads = 0
    /\ ac_thr = [t \in Threads |-> ThreadIdle]
    /\ gw_call = None /\ gw_backend = <<>> /\ gw_out = None
    /\ gw_got = <<>> /\ gw_end = "none"
    /\ ch_in = None /\ ch_pc = "idle" /\ ch_calls = 0 /\ ch_err = None
    /\ ch_out = None /\ ch_got = <<>> /\ ch_end = "none"

\* Everything before any operation, with every prompt file loadable.
Quiet ==
    /\ Settled
    /\ ac_files = AgentNames
    /\ gw = DefaultClient

Init ==
    /\ rh \in RetryConfigs
    /\ Quiet

Execute ==
    /\ op = "none"
    /\ op' = "execute"
    /\ ExecEnter
    /\ UNCHANGED <<rh, pureVars, contentVars, quizVars, fnVars>>

FuncReturns ==
    /\ op = "execute"
    /\ \E v \in PlainValues : ExecReturnsBody(v)
    /\ UNCHANGED <<rh, op, pureVars, contentVars, quizVars, fnVars>>

FuncRaises ==
    /\ op = "execute"
    /\ \E e \in Exceptions : ExecRaisesBody(e)
    /\ UNCHANGED <<rh, op, pureVars, contentVars, quizVars, fnVars>>

vars == <<rh, op, execVars, pureVars, contentVars, quizVars, fnVars>>

Next == Execute \/ FuncReturns \/ FuncRaises

Spec == Init /\ [][Next]_vars

\* ------------------------------------------------------------ C1
FailuresBefore == { i \in 1..Len(ex_hist) : ~ex_hist[i].ok }

\* C1: execute calls func once per attempt and stops at the first success,
\* the first non-retryable error or the max_attempts-th failure: every call
\* but the last failed with a transient error; after k < max_attempts
\* transient failures and a success it has made k+1 calls and returns that
\* value; it raises only the error of its last call, unchanged, and only
\* when that error is not transient or it was the max_attempts-th call.
C1_StoppingRule ==
    LET n == Len(ex_hist) IN
    /\ n <= rh.max_attempts
    /\ \A i \in 1..(n - 1) : ~ex_hist[i].ok /\ ex_hist[i].transient
    /\ ex_pc = "calling" =>
          /\ n < rh.max_attempts
          /\ n = ex_attempt
          /\ \A i \in 1..n : ~ex_hist[i].ok /\ ex_hist[i].transient
    /\ ex_pc = "returned" =>
          /\ n >= 1 /\ ex_hist[n].ok
          /\ n = Cardinality(FailuresBefore) + 1
          /\ ex_result.kind = "value"
    /\ ex_pc = "raised" =>
          /\ n >= 1 /\ ~ex_hist[n].ok
          /\ ex_result.kind = "error"
          /\ ex_last_error = Some(ex_result.err)
          /\ TransientKind(ex_result.err) = ex_hist[n].transient
          /\ ex_hist[n].transient => n = rh.max_attempts
          /\ ~ex_hist[n].transient => n = Cardinality(FailuresBefore)

\* Witness of C1: a run that failed transiently twice and then succeeded.
C1_Witness ==
    /\ ex_pc = "returned"
    /\ Len(ex_hist) = 3
    /\ ex_hist[1].transient /\ ex_hist[2].transient

\* ------------------------------------------------------------ SpecDelay
\* RetryHandler.calculate_delay called on a constructed handler.
CalculateDelay(attempt, retry_after) ==
    /\ cd_args' = Some([attempt |-> attempt, retry_after |-> retry_after])
    /\ cd_delay' = calculate_delay(rh, attempt, retry_after)
    /\ UNCHANGED <<rh, op, execVars, tr_cur, tr_prev, contentVars, quizVars, fnVars>>

NextDelay ==
    \E attempt \in 0..MaxAttemptArg, retry_after \in OptInts :
        CalculateDelay(attempt, retry_after)

SpecDelay == Init /\ [][NextDelay]_vars

Backoff(attempt) ==
    Min(rh.base_delay * Pow(2, attempt), rh.max_delay)

\* C2 as stated: calculate_delay(attempt) is min(base_delay * 2^attempt,
\* max_delay), and with any retry_after supplied it is
\* min(retry_after, max_delay).
C2_AnyRetryAfter ==
    cd_args # None =>
        LET a == Val(cd_args) IN
        cd_delay = IF a.retry_after = None THEN Backoff(a.attempt)
                   ELSE Min(Val(a.retry_after), rh.max_delay)

\* C2 amended: calculate_delay(attempt) is min(base_delay * 2^attempt,
\* max_delay); with a positive retry_after it is min(retry_after, max_delay)
\* whatever the attempt; a retry_after of zero or less is ignored and the
\* exponential formula applies.
C2_PositiveRetryAfter ==
    cd_args # None =>
        LET a == Val(cd_args) IN
        cd_delay = IF a.retry_after # None /\ Val(a.retry_after) > 0
                   THEN Min(Val(a.retry_after), rh.max_delay)
                   ELSE Backoff(a.attempt)

\* Witness of C2: a positive retry_after above max_delay was capped at a
\* later attempt.
C2_Witness ==
    /\ cd_args # None
    /\ Val(cd_args).retry_after # None
    /\ Val(Val(cd_args).retry_after) > rh.max_delay
    /\ Val(cd_args).attempt > 0
    /\ cd_delay = rh.max_delay

\* ------------------------------------------------------------ SpecErr
\* should_retry and AIErrorResponse.from_exception(...).to_dict() applied to
\* an exception.
Translate(e) ==
    /\ tr_prev' = IF tr_cur = None THEN None
                  ELSE Some([err |-> Val(tr_cur).err, dict |-> Val(tr_cur).dict])
    /\ tr_cur' = Some([err |-> e,
                       retry |-> should_retry(e),
                       report |-> from_exception(e),
                       dict |-> to_dict(from_exception(e))])
    /\ UNCHANGED <<rh, op, execVars, cd_args, cd_delay, contentVars, quizVars, fnVars>>

NextErr == \E e \in Exceptions : Translate(e)

\* Neither operation reads the handler's configuration: one handler.
InitErr ==
    /\ rh = [max_attempts |-> 1, base_delay |-> 1, max_delay |-> 1]
    /\ Quiet

SpecErr == InitErr /\ [][NextErr]_vars

\* ------------------------------------------------------------ C3
\* The categories the taxonomy retries: timeout, rate_limit, and api when
\* it is the 5xx server error (the "temporarily unavailable" report).
RetriedCategory(r) ==
    \/ r.error_type \in {"timeout", "rate_limit"}
    \/ r.error_type = "api" /\ r.user_message = MsgUnavailable

\* C3: should_retry(e) is true exactly when from_exception(e) has category
\* timeout, rate_limit or api-for-a-5xx-server-error.
C3_RetryAgreesWithTaxonomy ==
    tr_cur # None =>
        (Val(tr_cur).retry <=> RetriedCategory(Val(tr_cur).report))

\* ------------------------------------------------------------ C4
Categories ==
    {"timeout", "rate_limit", "api", "config", "network", "response", "unknown"}

\* The mapping C4 lists, everything it does not name going to unknown.
C4_ListedCategory(e) ==
    IF e.cls = "TimeoutError" THEN "timeout"
    ELSE IF e.cls = "RateLimitError" THEN "rate_limit"
    ELSE IF e.cls = "ServerError" THEN "api"
    ELSE IF e.cls = "AuthenticationError" THEN "config"
    ELSE IF e.cls = "ClientError" THEN "api"
    ELSE IF e.cls \in {"ConnectionError", "OSError"} THEN "network"
    ELSE "unknown"

\* The same mapping with the SDK's errors mapped like their counterparts.
C4_AmendedCategory(e) ==
    IF e.cls = "APITimeoutError" THEN "timeout"
    ELSE IF e.cls = "OpenAIRateLimitError" THEN "rate_limit"
    ELSE IF e.cls = "OpenAIAuthError" THEN "config"
    ELSE IF e.cls = "APIStatusError" THEN "api"
    ELSE C4_ListedCategory(e)

C4_ReportShape(t) ==
    /\ t.report.success = FALSE
    /\ t.report.error_type \in Categories
    /\ t.dict["success"] = [b |-> FALSE]
    /\ t.dict["error_type"] = [s |-> t.report.error_type]
    /\ t.err.retry_after # None =>
          /\ t.report.retry_after = t.err.retry_after
          /\ "retry_after" \in DOMAIN t.dict
          /\ t.dict["retry_after"] = [opt |-> t.err.retry_after]

\* C4 as stated: from_exception reports every exception with success=False
\* and a category of the fixed set, by the listed mapping with every other
\* exception going to unknown, and carries the error's retry_after into the
\* report and into to_dict().
C4_TotalListedMapping ==
    tr_cur # None =>
        /\ C4_ReportShape(Val(tr_cur))
        /\ Val(tr_cur).report.error_type = C4_ListedCategory(Val(tr_cur).err)

\* C4 amended: as stated, except that the OpenAI SDK's errors are mapped
\* too (APITimeoutError to timeout, its RateLimitError to rate_limit, its
\* AuthenticationError to config, any other APIStatusError to api); every
\* exception besides these and the listed ones goes to unknown.
C4_TotalMapping ==
    tr_cur # None =>
        /\ C4_ReportShape(Val(tr_cur))
        /\ Val(tr_cur).report.error_type = C4_AmendedCategory(Val(tr_cur).err)

\* Witness of C4: a rate limit error carrying retry_after was translated and
\* the value is in the dict.
C4_Witness ==
    /\ tr_cur # None
    /\ Val(tr_cur).err.cls = "RateLimitError"
    /\ Val(tr_cur).err.retry_after = Some(2)
    /\ "retry_after" \in DOMAIN Val(tr_cur).dict

\* ------------------------------------------------------------ C5
SameKind(e1, e2) ==
    /\ e1.cls = e2.cls
    /\ e1.status_code = e2.status_code
    /\ e1.retry_after = e2.retry_after
    /\ e1.header = e2.header

\* A text that shows nothing of an exception: no exception text, no type
\* name, neither the word "Exception" nor "Error:".
SafeText(txt) ==
    \A i \in DOMAIN txt :
        /\ txt[i].t \in {"lit", "num"}
        /\ txt[i].t = "lit" => txt[i].s \notin {"Exception", "Error:"}

\* C5: two exceptions of the same kind with the same retry_after get the
\* same to_dict() whatever their messages; to_dict() has no
\* technical_details; user_message holds neither the exception's message nor
\* "Exception" nor "Error:".
C5_ReportIndependentOfText ==
    /\ tr_cur # None =>
          /\ "technical_details" \notin DOMAIN Val(tr_cur).dict
          /\ SafeText(Val(tr_cur).report.user_message)
          /\ SafeText(Val(tr_cur).dict["user_message"].txt)
          /\ Len(Val(tr_cur).report.user_message) > 0
    /\ (tr_cur # None /\ tr_prev # None
        /\ SameKind(Val(tr_cur).err, Val(tr_prev).err)) =>
          Val(tr_cur).dict = Val(tr_prev).dict

\* Witness of C5: two errors of one kind with different messages were
\* translated one after the other.
C5_Witness ==
    /\ tr_cur # None /\ tr_prev # None
    /\ SameKind(Val(tr_cur).err, Val(tr_prev).err)
    /\ Val(tr_cur).err.msg # Val(tr_prev).err.msg
    /\ Val(tr_cur).err.cls = "ValueError"

\* ------------------------------------------------------------ ContentPipeline
max_chunk_chars == 12000
max_frames == 5

\* Parts of texts that come from the caller or from the model, not from an
\* exception: the filename, the content type, the text of the response to
\* the call made for unit i.
FileName == [t |-> "file", s |-> "", n |-> 0]
CType(c) == [t |-> "ctype", s |-> c, n |-> 0]
Resp(i) == [t |-> "resp", s |-> "", n |-> i]

\* What the model may answer to a content call: a JSON object, prose with no
\* JSON in it, the empty string, JSON that is not an object (an array).
ContentKinds == {"object", "prose", "empty", "nonobject"}

\* Errors the gateway raises out of a call: the SDK's and Python's own.
GatewayErrors ==
    { e \in Exceptions :
        /\ e.cls \in {"APITimeoutError", "OpenAIRateLimitError", "OpenAIAuthError",
                      "APIStatusError", "ConnectionError", "ValueError"}
        /\ e.header = None }

\* `data.get(...)` on a list: the AttributeError _normalize_content_result
\* raises when the response decodes to something that is no dict.
NotADictError ==
    [cls |-> "AttributeError", msg |-> "m1", retry_after |-> None,
     status_code |-> 0, header |-> None]

\* An extraction result; unit is the loop index it was produced under (0
\* outside a loop), error_message is {} for None.
Result(unit, status, summary, error_message, source_type) ==
    [unit |-> unit, processing_status |-> status, summary |-> summary,
     error_message |-> error_message, source_type |-> source_type]

_create_error_content_result(content_type, error_message) ==
    Result(0, "failed",
           <<Lit("Failed"), Lit("to"), Lit("process"), CType(content_type),
             Lit("content.")>>,
           Some(error_message), content_type)

_create_fallback_content_result(unit, content_type) ==
    Result(unit, "partial",
           <<Lit("[Fallback"), Lit("Mode]"), Lit("Content"), Lit("of"),
             Lit("type"), CType(content_type), Lit("was"), Lit("uploaded."),
             Lit("AI"), Lit("analysis"), Lit("is"), Lit("currently"),
             Lit("unavailable.")>>,
           Some(Words(<<"AI", "service", "unavailable.", "Using", "fallback",
                        "mode.">>)),
           content_type)

_extract_from_plain_text(unit, content_type) ==
    Result(unit, "partial", <<Resp(unit)>>,
           Some(Words(<<"Could", "not", "parse", "structured", "response",
                        "from", "AI.">>)),
           content_type)

_normalize_content_result(unit, content_type) ==
    Result(unit, "complete", <<Resp(unit)>>, None, content_type)

\* _parse_content_response on the response to unit's call: a result, or the
\* exception it lets through.
_parse_content_response(kind, unit, content_type) ==
    IF kind = "empty"
    THEN [raises |-> FALSE, res |-> _create_fallback_content_result(unit, content_type)]
    ELSE IF kind = "prose"
    THEN [raises |-> FALSE, res |-> _extract_from_plain_text(unit, content_type)]
    ELSE IF kind = "object"
    THEN [raises |-> FALSE, res |-> _normalize_content_result(unit, content_type)]
    ELSE [raises |-> TRUE, err |-> NotADictError]

\* _process_single_chunk / _process_image_content after execute: parse the
\* response; any exception becomes an error result carrying the translated
\* user_message.
_process_single_chunk(outcome, unit, content_type) ==
    IF outcome.kind = "value"
    THEN LET p == _parse_content_response(outcome.val, unit, content_type) IN
         IF p.raises
         THEN _create_error_content_result(content_type,
                                           from_exception(p.err).user_message)
         ELSE p.res
    ELSE _create_error_content_result(content_type,
                                      from_exception(outcome.err).user_message)

\* _analyze_video_frame after execute: the parsed analysis, or None ({}).
_analyze_video_frame(outcome, unit) ==
    IF outcome.kind = "value"
    THEN LET p == _parse_content_response(outcome.val, unit, "video_frame") IN
         IF p.raises THEN None ELSE Some(p.res)
    ELSE None

chunk_results_append_Always(results, r) == Append(results, r)

\* `if chunk_result.get('processing_status') != 'failed': append`
chunk_results_append(results, r) ==
    IF r.processing_status # "failed" THEN Append(results, r) ELSE results

\* `if analysis: frame_analyses.append(analysis)`
frame_analyses_append(results, a) ==
    IF a # None THEN Append(results, Val(a)) ELSE results

RECURSIVE JoinSummaries(_)
JoinSummaries(results) ==
    IF results = <<>> THEN <<>>
    ELSE Head(results).summary \o JoinSummaries(Tail(results))

_combine_chunk_results(results, content_type) ==
    Result(0, "complete", JoinSummaries(results), None, content_type)

\* summary.startswith('[')
StartsWithBracket(txt) == txt # <<>> /\ txt[1] = Lit("[Fallback")

RECURSIVE FrameSummaries(_, _)
FrameSummaries(results, i) ==
    IF i > Len(results) THEN <<>>
    ELSE (IF StartsWithBracket(results[i].summary) THEN <<>>
          ELSE <<Lit("[Frame"), Num(i), Lit("]")>> \o results[i].summary)
         \o FrameSummaries(results, i + 1)

_combine_video_frame_analyses(results) ==
    LET summaries == FrameSummaries(results, 1) IN
    Result(0, "complete",
           IF summaries # <<>> THEN summaries
           ELSE <<Lit("Video"), Lit("analysis"), Lit("of"), FileName>>,
           None, "video")

\* VideoProcessor.extract_frames: <<number of frames, error or None>>.
ExtractOutcomes ==
         [k : {"open_failed", "invalid", "no_frames"}, msg : {"m1"}, n : {0}]
    \cup [k : {"raised"}, msg : Msgs, n : {0}]
    \cup [k : {"frames"}, msg : {"m1"}, n : 1..Min(MaxUnits, max_frames)]

extract_frames(o) ==
    IF o.k = "open_failed"
    THEN <<0, Some(Words(<<"Failed", "to", "open", "video", "file:">>) \o <<FileName>>)>>
    ELSE IF o.k = "invalid"
    THEN <<0, Some(Words(<<"Invalid", "video", "file:">>) \o <<FileName>>)>>
    ELSE IF o.k = "no_frames"
    THEN <<0, Some(Words(<<"No", "frames", "could", "be", "extracted", "from:">>)
                   \o <<FileName>>)>>
    ELSE IF o.k = "raised"
    THEN <<0, Some(Words(<<"Video", "processing", "error:">>) \o <<ExcText(o.msg)>>)>>
    ELSE <<o.n, None>>

\* _is_image_content
_is_image_content(content_type) == content_type \in {"image", "png"}

\* process_content's arguments (content_type, str or bytes, the length of
\* the text) with what its environment answers: whether ContentAgent's prompt
\* loaded, how many chunks _chunk_document returns, whether cv2 imports, how
\* extract_frames ends.
NoExtract == [k |-> "none", msg |-> "m1", n |-> 0]
ContentInput(ct, agent, is_str, len, chunks, cv2, ex) ==
    [content_type |-> ct, agent |-> agent, is_str |-> is_str, len |-> len,
     chunks |-> chunks, cv2 |-> cv2, extract |-> ex]

DocLens ==
    {0, max_chunk_chars - 1, max_chunk_chars, max_chunk_chars + 1,
     2 * max_chunk_chars + 1000}

ContentInputs ==
         { ContentInput(ct, FALSE, TRUE, 0, 0, TRUE, NoExtract) :
             ct \in {"text", "image", "video"} }
    \cup { ContentInput(ct, TRUE, FALSE, 0, 0, TRUE, NoExtract) :
             ct \in {"image", "png", "audio"} }
    \cup { ContentInput(ct, TRUE, TRUE, len, 0, TRUE, NoExtract) :
             ct \in {"text", "pdf", "audio"},
             len \in { l \in DocLens : l <= max_chunk_chars } }
    \cup { ContentInput(ct, TRUE, TRUE, len, n, TRUE, NoExtract) :
             ct \in {"text", "pdf"},
             len \in { l \in DocLens : l > max_chunk_chars },
             n \in 1..MaxUnits }
    \cup { ContentInput("video", TRUE, FALSE, 0, 0, FALSE, NoExtract) }
    \cup { ContentInput("video", TRUE, FALSE, 0, 0, TRUE, ex) :
             ex \in ExtractOutcomes }

\* execute's frame is gone once its caller has taken the outcome.
ExecLeave ==
    /\ ex_pc' = "idle"
    /\ ex_attempt' = 0
    /\ ex_hist' = <<>>
    /\ ex_sleeps' = <<>>
    /\ ex_last_error' = None
    /\ ex_result' = NoResult

\* The first retried call of a path is issued.
ContentBegin(pc) ==
    /\ cp_pc' = pc
    /\ cp_unit' = 1
    /\ cp_results' = <<>>
    /\ cp_log' = <<>>
    /\ cp_execs' = <<1>>
    /\ cp_out' = None
    /\ ExecEnter

\* process_content returns an error result without calling the model.
ContentFail(content_type, error_message) ==
    /\ cp_pc' = "done"
    /\ cp_unit' = 0
    /\ cp_results' = <<>>
    /\ cp_log' = <<>>
    /\ cp_execs' = <<>>
    /\ cp_out' = Some(_create_error_content_result(content_type, error_message))
    /\ UNCHANGED execVars

\* _process_text_content: chunk above max_chunk_chars, else one call.
TextRoute(inp) ==
    IF inp.len > max_chunk_chars THEN ContentBegin("chunks")
    ELSE ContentBegin("single")

\* _process_video_content up to the frame loop.
VideoRoute(inp) ==
    IF ~inp.cv2
    THEN ContentFail("video",
             Words(<<"Video", "processing", "is", "not", "available.", "Please",
                     "install", "opencv-python.">>))
    ELSE LET fe == extract_frames(inp.extract) IN
         IF fe[2] # None \/ fe[1] = 0
         THEN ContentFail("video",
                  IF fe[2] # None THEN Val(fe[2])
                  ELSE Words(<<"Failed", "to", "extract", "frames", "from",
                               "video.">>))
         ELSE ContentBegin("frames")

\* process_content up to its first model call (or to its return when it
\* makes none).
ProcessContent ==
    /\ op = "none"
    /\ op' = "content"
    /\ \E inp \in ContentInputs :
          /\ cp_in' = Some(inp)
          /\ LET ct == inp.content_type IN
             IF ~inp.agent
             THEN ContentFail(ct, Words(<<"ContentAgent", "is", "not",
                                          "available.">>))
             ELSE IF ct = "image" \/ _is_image_content(ct)
             THEN ContentBegin("image")
             ELSE IF ct = "pdf" \/ ct = "text" THEN TextRoute(inp)
             ELSE IF ct = "video" THEN VideoRoute(inp)
             ELSE IF inp.is_str THEN TextRoute(inp)
             ELSE ContentFail(ct, Words(<<"Unsupported", "content", "type:">>)
                                  \o <<CType(ct)>>)
    /\ UNCHANGED <<rh, pureVars, quizVars, fnVars>>

\* The number of chunks or frames of the run.
NUnits ==
    IF cp_pc = "chunks" THEN Val(cp_in).chunks
    ELSE IF cp_pc = "frames" THEN Val(cp_in).extract.n
    ELSE 1

\* chat_completion / vision_completion returns a response inside execute.
ContentCallReturns ==
    /\ op = "content"
    /\ \E k \in ContentKinds : ExecReturnsBody(k)
    /\ UNCHANGED <<rh, op, pureVars, contentVars, quizVars, fnVars>>

\* chat_completion / vision_completion raises inside execute.
ContentCallRaises ==
    /\ op = "content"
    /\ \E e \in GatewayErrors : ExecRaisesBody(e)
    /\ UNCHANGED <<rh, op, pureVars, contentVars, quizVars, fnVars>>

ExecOver == ex_pc \in {"returned", "raised"}
UnitOutcome == IF ex_result.kind = "value" THEN ex_result.val ELSE "raised"

\* _process_single_chunk / _process_image_content from execute's outcome to
\* process_content's return.
SingleDone ==
    /\ op = "content" /\ cp_pc \in {"single", "image"} /\ ExecOver
    /\ LET st == IF cp_pc = "image" THEN "image" ELSE Val(cp_in).content_type IN
       cp_out' = Some(_process_single_chunk(ex_result, cp_unit, st))
    /\ cp_pc' = "done"
    /\ cp_log' = Append(cp_log, UnitOutcome)
    /\ ExecLeave
    /\ UNCHANGED <<rh, op, pureVars, quizVars, fnVars, cp_in, cp_unit, cp_results, cp_execs>>

\* _process_large_document's loop body from execute's outcome on: keep the
\* chunk's result unless it failed; then the next chunk's call, or after the
\* last chunk the combined result.
ChunkDone ==
    /\ op = "content" /\ cp_pc = "chunks" /\ ExecOver
    /\ LET ct == Val(cp_in).content_type
           r == _process_single_chunk(ex_result, cp_unit, ct)
           results == chunk_results_append(cp_results, r)
       IN /\ cp_results' = results
          /\ cp_log' = Append(cp_log, UnitOutcome)
          /\ IF cp_unit < NUnits
             THEN /\ cp_unit' = cp_unit + 1
                  /\ cp_execs' = Append(cp_execs, cp_unit + 1)
                  /\ ExecEnter
                  /\ UNCHANGED <<cp_pc, cp_out>>
             ELSE /\ cp_pc' = "done"
                  /\ cp_out' = Some(
                        IF results = <<>>
                        THEN _create_error_content_result(ct,
                                 Words(<<"Failed", "to", "process", "any",
                                         "chunks", "of", "the", "document.">>))
                        ELSE _combine_chunk_results(results, ct))
                  /\ ExecLeave
                  /\ UNCHANGED <<cp_unit, cp_execs>>
    /\ UNCHANGED <<rh, op, pureVars, quizVars, fnVars, cp_in>>

\* _process_video_content's loop body from execute's outcome on.
FrameDone ==
    /\ op = "content" /\ cp_pc = "frames" /\ ExecOver
    /\ LET a == _analyze_video_frame(ex_result, cp_unit)
           results == frame_analyses_append(cp_results, a)
       IN /\ cp_results' = results
          /\ cp_log' = Append(cp_log, UnitOutcome)
          /\ IF cp_unit < NUnits
             THEN /\ cp_unit' = cp_unit + 1
                  /\ cp_execs' = Append(cp_execs, cp_unit + 1)
                  /\ ExecEnter
                  /\ UNCHANGED <<cp_pc, cp_out>>
             ELSE /\ cp_pc' = "done"
                  /\ cp_out' = Some(
                        IF results = <<>>
                        THEN _create_error_content_result("video",
                                 Words(<<"Failed", "to", "analyze", "any",
                                         "frames", "from", "the", "video.">>))
                        ELSE _combine_video_frame_analyses(results))
                  /\ ExecLeave
                  /\ UNCHANGED <<cp_unit, cp_execs>>
    /\ UNCHANGED <<rh, op, pureVars, quizVars, fnVars, cp_in>>

NextContent ==
    \/ ProcessContent
    \/ ContentCallReturns
    \/ ContentCallRaises
    \/ SingleDone
    \/ ChunkDone
    \/ FrameDone

\* The orchestrator's pipelines never read the delays: handlers that differ
\* in max_attempts.
InitOrchestrator ==
    /\ rh \in { c \in RetryConfigs : c.base_delay = 1 /\ c.max_delay = 1 }
    /\ Quiet

SpecContent == InitOrchestrator /\ [][NextContent]_vars

\* No part of the text is an exception's own text or its class name.
NoExceptionText(txt) == \A i \in DOMAIN txt : txt[i].t \notin {"exc", "type"}

\* C6: on every return of process_content the error_message handed to the
\* caller is a fixed template or a translated user_message: no part of it is
\* the text of an exception that was raised.
C6_NoRawExceptionText ==
    (op = "content" /\ cp_pc = "done" /\ Val(cp_out).error_message # None)
        => NoExceptionText(Val(Val(cp_out).error_message))

\* The units of the finished run whose call returned a response that was
\* parsed into a result, and those among them parsed by the plain-text
\* fallback.
SucceededUnits ==
    { i \in DOMAIN cp_log : cp_log[i] \in {"object", "prose", "empty"} }
DegradedUnits == { i \in DOMAIN cp_log : cp_log[i] = "prose" }

\* C7: process_content returns 'failed' exactly when no unit succeeded
\* (which includes the runs that made no call), 'partial' whenever a
\* succeeded unit's response was parsed by the plain-text fallback, and
\* 'complete' when every succeeded unit's response was a JSON object.
C7_TerminalStatus ==
    (op = "content" /\ cp_pc = "done") =>
        LET st == Val(cp_out).processing_status IN
        /\ (st = "failed") <=> (SucceededUnits = {})
        /\ DegradedUnits # {} => st = "partial"
        /\ (SucceededUnits # {} /\ \A i \in SucceededUnits : cp_log[i] = "object")
               => st = "complete"

\* The run's input takes the chunked path, the frame path, the one-call path.
IsLargeDocument ==
    /\ cp_in # None /\ Val(cp_in).agent
    /\ Val(cp_in).content_type \in {"text", "pdf"}
    /\ Val(cp_in).len > 12000
IsFramedVideo ==
    /\ cp_in # None /\ Val(cp_in).agent
    /\ Val(cp_in).content_type = "video"
    /\ Val(cp_in).extract.k = "frames"
IsSmallDocument ==
    /\ cp_in # None /\ Val(cp_in).agent
    /\ Val(cp_in).content_type \in {"text", "pdf"}
    /\ Val(cp_in).len <= 12000

UpTo(n) == [i \in 1..n |-> i]
RECURSIVE SucceededUpTo(_)
SucceededUpTo(n) ==
    IF n = 0 THEN <<>>
    ELSE SucceededUpTo(n - 1) \o (IF n \in SucceededUnits THEN <<n>> ELSE <<>>)
UnitsOf(results) == [i \in DOMAIN results |-> results[i].unit]
\* The units whose response text appears in the summary, in its order.
RECURSIVE RespUnits(_)
RespUnits(txt) ==
    IF txt = <<>> THEN <<>>
    ELSE (IF Head(txt).t = "resp" THEN <<Head(txt).n>> ELSE <<>>)
         \o RespUnits(Tail(txt))
RECURSIVE WithResponse(_)
WithResponse(units) ==
    IF units = <<>> THEN <<>>
    ELSE (IF cp_log[Head(units)] # "empty" THEN <<Head(units)>> ELSE <<>>)
         \o WithResponse(Tail(units))

MaxQuestionCount == 2
MaxQuizRetries == 2
MaxItems == 2

\* The strings of the quiz data are sequences of parts; Sp and Nl are the
\* whitespace characters.
Sp == Lit(" ")
Nl == Lit("\n")
WhiteSpace == {Sp, Nl}
RECURSIVE LStrip(_)
LStrip(txt) ==
    IF txt # <<>> /\ Head(txt) \in WhiteSpace THEN LStrip(Tail(txt)) ELSE txt
RECURSIVE RStrip(_)
RStrip(txt) ==
    IF txt # <<>> /\ txt[Len(txt)] \in WhiteSpace
    THEN RStrip(SubSeq(txt, 1, Len(txt) - 1))
    ELSE txt
\* str.strip()
Strip(txt) == RStrip(LStrip(txt))

\* The values json.loads puts in a question dict: a string, an integer,
\* null, Infinity, a list; Absent stands for a key the dict does not have.
JStr(txt) == [k |-> "str", v |-> txt, n |-> 0, items |-> <<>>]
JInt(i) == [k |-> "int", v |-> <<>>, n |-> i, items |-> <<>>]
JNull == [k |-> "null", v |-> <<>>, n |-> 0, items |-> <<>>]
JInf == [k |-> "inf", v |-> <<>>, n |-> 0, items |-> <<>>]
JList(items) == [k |-> "list", v |-> <<>>, n |-> 0, items |-> items]
Absent == [k |-> "absent", v |-> <<>>, n |-> 0, items |-> <<>>]

\* dict.get(key, default)
Get(j, default) == IF j.k = "absent" THEN default ELSE j

\* str(value)
PyStr(j) ==
    IF j.k = "str" THEN j.v
    ELSE IF j.k = "int" THEN <<Lit(ToString(j.n))>>
    ELSE IF j.k = "null" THEN <<Lit("None")>>
    ELSE IF j.k = "inf" THEN <<Lit("inf")>>
    ELSE <<Lit("[...]")>>

\* int(value): the integer, or the exception int raises.
IntLiterals == (0 - 9)..9
PyInt(j) ==
    IF j.k = "int" THEN [ok |-> TRUE, n |-> j.n, exc |-> ""]
    ELSE IF j.k = "str"
    THEN LET t == Strip(j.v) IN
         IF Len(t) = 1 /\ \E d \in IntLiterals : ToString(d) = t[1].s
         THEN [ok |-> TRUE,
               n |-> CHOOSE d \in IntLiterals : ToString(d) = t[1].s,
               exc |-> ""]
         ELSE [ok |-> FALSE, n |-> 0, exc |-> "ValueError"]
    ELSE IF j.k = "inf" THEN [ok |-> FALSE, n |-> 0, exc |-> "OverflowError"]
    ELSE [ok |-> FALSE, n |-> 0, exc |-> "TypeError"]

\* An element of the decoded array: a dict with the keys the validator
\* reads, or something that is no dict.
RawQ(question, options, correct_index, correctIndex, explanation, id) ==
    [isdict |-> TRUE, question |-> question, options |-> options,
     correct_index |-> correct_index, correctIndex |-> correctIndex,
     explanation |-> explanation, id |-> id]
NotADict ==
    [isdict |-> FALSE, question |-> Absent, options |-> Absent,
     correct_index |-> Absent, correctIndex |-> Absent,
     explanation |-> Absent, id |-> Absent]

Rejected == [kind |-> "none"]
ValidatorRaises(exc) == [kind |-> "raises", exc |-> exc]
Validated(q) == [kind |-> "ok", q |-> q]

NoExplanation == Words(<<"No", "explanation", "provided.">>)

\* _validate_quiz_question: the validated question, None, or the exception
\* it lets through.
_validate_quiz_question(question_data, index) ==
    IF ~question_data.isdict THEN Rejected
    ELSE LET question == Get(question_data.question, JStr(<<>>)) IN
    IF question.k # "str" THEN ValidatorRaises("AttributeError")
    ELSE LET question_text == Strip(question.v) IN
    IF question_text = <<>> THEN Rejected
    ELSE LET raw_options == Get(question_data.options, JList(<<>>)) IN
    IF raw_options.k # "list" \/ Len(raw_options.items) # 4 THEN Rejected
    ELSE LET options == [i \in 1..4 |-> Strip(PyStr(raw_options.items[i]))] IN
    IF \E i \in 1..4 : options[i] = <<>> THEN Rejected
    ELSE IF Cardinality({options[i] : i \in 1..4}) # 4 THEN Rejected
    ELSE LET raw_index == Get(question_data.correct_index,
                              Get(question_data.correctIndex, JInt(0)))
             as_int == PyInt(raw_index)
         IN
    IF ~as_int.ok /\ as_int.exc \notin {"ValueError", "TypeError"}
    THEN ValidatorRaises(as_int.exc)
    ELSE LET correct_index == IF as_int.ok THEN as_int.n ELSE 0 IN
    IF ~(0 <= correct_index /\ correct_index < 4) THEN Rejected
    ELSE LET raw_explanation == Get(question_data.explanation, JStr(<<>>)) IN
    IF raw_explanation.k # "str" THEN ValidatorRaises("AttributeError")
    ELSE Validated(
           [id |-> Get(question_data.id, JStr(<<Lit("q" \o ToString(index))>>)),
            question |-> question_text,
            options |-> options,
            correct_index |-> correct_index,
            explanation |-> IF Strip(raw_explanation.v) = <<>> THEN NoExplanation
                            ELSE Strip(raw_explanation.v)])

\* What the model may answer to a quiz call: the empty string, text from
\* which no JSON decodes, JSON that is no list, a JSON array.
QuizResponse(k, items) == [k |-> k, items |-> items]

\* _parse_quiz_response's loop over the decoded array from element i on.
RECURSIVE ValidateFrom(_, _, _)
ValidateFrom(questions_data, i, validated_questions) ==
    IF i > Len(questions_data)
    THEN [raises |-> FALSE, exc |-> "", qs |-> validated_questions]
    ELSE LET validated == _validate_quiz_question(questions_data[i], i) IN
         IF validated.kind = "raises"
         THEN [raises |-> TRUE, exc |-> validated.exc, qs |-> <<>>]
         ELSE ValidateFrom(questions_data, i + 1,
                           IF validated.kind = "ok"
                           THEN Append(validated_questions, validated.q)
                           ELSE validated_questions)

\* _parse_quiz_response: the validated questions ([] when nothing decodes to
\* a list), or the exception the validator lets through.  expected_count is
\* only compared for a log line.
_parse_quiz_response(response, expected_count) ==
    IF response.k # "array"
    THEN [raises |-> FALSE, exc |-> "", qs |-> <<>>]
    ELSE ValidateFrom(response.items, 1, <<>>)

FallbackOptions ==
    << <<Lit("Option"), Lit("A")>>, <<Lit("Option"), Lit("B")>>,
       <<Lit("Option"), Lit("C")>>, <<Lit("Option"), Lit("D")>> >>

\* _generate_fallback_quiz; topic is <<>> for None or "".
_generate_fallback_quiz(topic, question_count) ==
    [i \in 1..question_count |->
        [id |-> JStr(<<Lit("q" \o ToString(i))>>),
         question |-> <<Lit("[Fallback]"), Lit("Sample"), Lit("question"),
                        Num(i), Lit("about")>>
                      \o (IF topic # <<>> THEN topic
                          ELSE Words(<<"the", "content">>))
                      \o <<Lit("?")>>,
         options |-> FallbackOptions,
         correct_index |-> 0,
         explanation |-> Words(<<"[Fallback]", "This", "is", "a",
                                 "placeholder", "question.", "The", "AI",
                                 "service", "was", "unavailable.">>)]]

\* Raw questions the model may produce.
OptA == JStr(<<Lit("a")>>)
OptB == JStr(<<Lit("b")>>)
OptC == JStr(<<Lit("c")>>)
OptD == JStr(<<Lit("d")>>)
GoodOptions == JList(<<OptA, OptB, OptC, OptD>>)
QText(w) == JStr(<<Lit(w), Lit("?")>>)
Because == JStr(<<Lit("because")>>)

ValidQ1 == RawQ(QText("What"), GoodOptions, JInt(1), Absent, Because, Absent)
ValidQ2 ==
    RawQ(JStr(<<Sp, Lit("Why"), Lit("?"), Sp>>), GoodOptions, Absent, JInt(3),
         Absent, JStr(<<Lit("x")>>))
DuplicateAfterTrim ==
    RawQ(QText("Dup"), JList(<<OptA, JStr(<<Sp, Lit("a"), Sp>>), OptC, OptD>>),
         JInt(0), Absent, Because, Absent)

LongArrayQuestions == {ValidQ1, DuplicateAfterTrim}
RawQuestions ==
    { NotADict, ValidQ1, ValidQ2, DuplicateAfterTrim,
      RawQ(JStr(<<Sp>>), GoodOptions, JInt(0), Absent, Because, Absent),
      RawQ(Absent, GoodOptions, JInt(0), Absent, Because, Absent),
      RawQ(JInt(7), GoodOptions, JInt(0), Absent, Because, Absent),
      RawQ(QText("Three"), JList(<<OptA, OptB, OptC>>), JInt(0), Absent,
           Because, Absent),
      RawQ(QText("NoList"), OptA, JInt(0), Absent, Because, Absent),
      RawQ(QText("IntDup"), JList(<<JInt(1), JStr(<<Lit("1")>>), OptC, OptD>>),
           JInt(0), Absent, Because, Absent),
      RawQ(QText("Blank"), JList(<<OptA, JStr(<<Sp>>), OptC, OptD>>), JInt(0),
           Absent, Because, Absent),
      RawQ(QText("Four"), GoodOptions, JInt(4), Absent, Because, Absent),
      RawQ(QText("Minus"), GoodOptions, JInt(0 - 1), Absent, Because, Absent),
      RawQ(QText("Text"), GoodOptions, JStr(<<Lit("abc")>>), Absent, Because,
           Absent),
      RawQ(QText("Digit"), GoodOptions, JStr(<<Sp, Lit("2")>>), Absent, Because,
           Absent),
      RawQ(QText("Null"), GoodOptions, JNull, JInt(3), Because, Absent),
      RawQ(QText("Inf"), GoodOptions, JInf, Absent, Because, Absent),
      RawQ(QText("Expl"), GoodOptions, JInt(2), Absent, JInt(5), Absent) }

RECURSIVE SeqsOver(_, _)
SeqsOver(S, n) ==
    IF n = 0 THEN {<<>>}
    ELSE { Append(q, x) : q \in SeqsOver(S, n - 1), x \in S }

QuizResponses ==
         { QuizResponse(k, <<>>) : k \in {"empty", "prose", "object", "array"} }
    \cup { QuizResponse("array", <<q>>) : q \in RawQuestions }
    \cup { QuizResponse("array", items) :
             items \in UNION { SeqsOver(LongArrayQuestions, n) : n \in 2..MaxItems } }

\* generate_quiz's arguments, with whether QuizAgent's prompt loaded.
QuizInputs ==
    [agent : BOOLEAN, topic : {<<>>, <<Lit("algebra")>>},
     question_count : 1..MaxQuestionCount, max_retries : 0..MaxQuizRetries]

\* `for attempt in range(max_retries)`: attempt is a value of the loop.
InRange_OneMore(attempt, max_retries) == attempt <= max_retries
InRange(attempt, max_retries) == attempt < max_retries

\* generate_quiz returns.
QuizReturn(questions) ==
    /\ qz_pc' = "done"
    /\ qz_out' = Some(questions)

\* The loop goes to its next value and calls the model again, or is over and
\* the fallback questions are returned (the return after the loop).
QuizNextCycle(inp, strict) ==
    /\ qz_strict' = strict
    /\ IF InRange(qz_attempt + 1, inp.max_retries)
       THEN /\ qz_attempt' = qz_attempt + 1
            /\ ExecEnter
            /\ UNCHANGED <<qz_pc, qz_out>>
       ELSE /\ QuizReturn(_generate_fallback_quiz(inp.topic, inp.question_count))
            /\ ExecLeave
            /\ UNCHANGED qz_attempt

\* generate_quiz up to its first model call (or to its return when it makes
\* none).
GenerateQuiz ==
    /\ op = "none"
    /\ op' = "quiz"
    /\ \E inp \in QuizInputs :
          /\ qz_in' = Some(inp)
          /\ qz_attempt' = 0
          /\ qz_strict' = FALSE
          /\ qz_last' = "none"
          /\ IF ~inp.agent
             THEN QuizReturn(<<>>) /\ UNCHANGED execVars
             ELSE IF InRange(0, inp.max_retries)
             THEN qz_pc' = "cycle" /\ qz_out' = None /\ ExecEnter
             ELSE /\ QuizReturn(_generate_fallback_quiz(inp.topic,
                                                        inp.question_count))
                  /\ UNCHANGED execVars
    /\ UNCHANGED <<rh, pureVars, contentVars, fnVars>>

\* chat_completion returns a response inside execute.
QuizCallReturns ==
    /\ op = "quiz"
    /\ \E r \in QuizResponses : ExecReturnsBody(r)
    /\ UNCHANGED <<rh, op, pureVars, contentVars, quizVars, fnVars>>

\* chat_completion raises inside execute.
QuizCallRaises ==
    /\ op = "quiz"
    /\ \E e \in GatewayErrors : ExecRaisesBody(e)
    /\ UNCHANGED <<rh, op, pureVars, contentVars, quizVars, fnVars>>

\* The loop body of generate_quiz from execute's outcome on: return the
\* parsed questions when there are any; on an empty parse rebuild the
\* messages with strict_format if attempts remain; on an exception (of the
\* call or of the parse) return the fallback on the last attempt.
QuizCycleDone ==
    /\ op = "quiz" /\ qz_pc = "cycle" /\ ExecOver
    /\ LET inp == Val(qz_in)
           call_raised == ex_result.kind = "error"
           parsed == _parse_quiz_response(ex_result.val, inp.question_count)
       IN IF ~call_raised /\ ~parsed.raises /\ parsed.qs # <<>>
          THEN /\ qz_last' = "questions"
               /\ QuizReturn(parsed.qs)
               /\ ExecLeave
               /\ UNCHANGED <<qz_attempt, qz_strict>>
          ELSE IF ~call_raised /\ ~parsed.raises
          THEN /\ qz_last' = "no_questions"
               /\ QuizNextCycle(inp, IF qz_attempt < inp.max_retries - 1
                                     THEN TRUE ELSE qz_strict)
          ELSE /\ qz_last' = (IF call_raised THEN "call_raised"
                              ELSE "parse_raised")
               /\ IF qz_attempt >= inp.max_retries - 1
                  THEN /\ QuizReturn(_generate_fallback_quiz(inp.topic,
                                                             inp.question_count))
                       /\ ExecLeave
                       /\ UNCHANGED <<qz_attempt, qz_strict>>
                  ELSE QuizNextCycle(inp, qz_strict)
    /\ UNCHANGED <<rh, op, pureVars, contentVars, fnVars, qz_in>>

NextQuiz ==
    \/ GenerateQuiz
    \/ QuizCallReturns
    \/ QuizCallRaises
    \/ QuizCycleDone

SpecQuiz == InitOrchestrator /\ [][NextQuiz]_vars

\* A question record as the quiz layer stores it: 4 distinct non-empty
\* options, an index into them, a non-empty explanation.
WellFormedQuestion(q) ==
    /\ Len(q.options) = 4
    /\ \A i \in 1..4 : q.options[i] # <<>>
    /\ Cardinality({q.options[i] : i \in 1..4}) = 4
    /\ q.correct_index \in 0..3
    /\ q.question # <<>>
    /\ q.explanation # <<>>

\* Every question generate_quiz returns is well formed (the part of the
\* count claim that does not depend on the count).
QuizQuestionsWellFormed ==
    (op = "quiz" /\ qz_pc = "done") =>
        \A i \in DOMAIN Val(qz_out) : WellFormedQuestion(Val(qz_out)[i])

\* C9: with QuizAgent loaded, generate_quiz returns exactly question_count
\* well-formed questions, so a response with another number of valid
\* questions is never the result.
C9_ExactlyRequestedCount ==
    (op = "quiz" /\ qz_pc = "done" /\ Val(qz_in).agent) =>
        /\ Len(Val(qz_out)) = Val(qz_in).question_count
        /\ \A i \in DOMAIN Val(qz_out) : WellFormedQuestion(Val(qz_out)[i])

\* The generate-and-validate cycles begun so far.
QuizCycles ==
    IF qz_pc = "cycle" THEN qz_attempt + 1
    ELSE IF qz_last = "none" THEN 0
    ELSE qz_attempt + 1

IsFallbackQuestion(q) ==
    /\ q.question # <<>> /\ q.question[1] = Lit("[Fallback]")
    /\ q.explanation # <<>> /\ q.explanation[1] = Lit("[Fallback]")

\* C10: generate_quiz begins at most max_retries cycles, each cycle makes at
\* most max_attempts calls, and it ends by returning a list; when cycles ran
\* and none produced questions, all max_retries cycles ran and the list is
\* the question_count placeholder questions labelled "[Fallback]".
C10_BoundedCyclesThenList ==
    op = "quiz" =>
        /\ qz_pc \in {"cycle", "done"}
        /\ QuizCycles <= Val(qz_in).max_retries
        /\ Len(ex_hist) <= rh.max_attempts
        /\ qz_pc = "cycle" => qz_out = None
        /\ qz_pc = "done" =>
              /\ qz_out # None
              /\ ExecIdle
              /\ (QuizCycles >= 1 /\ qz_last # "questions") =>
                    /\ QuizCycles = Val(qz_in).max_retries
                    /\ Len(Val(qz_out)) = Val(qz_in).question_count
                    /\ \A i \in DOMAIN Val(qz_out) :
                           IsFallbackQuestion(Val(qz_out)[i])
                    /\ Val(qz_out) = _generate_fallback_quiz(
                           Val(qz_in).topic, Val(qz_in).question_count)
              /\ qz_last = "questions" =>
                    /\ Val(qz_out) # <<>>
                    /\ \A i \in DOMAIN Val(qz_out) :
                           ~IsFallbackQuestion(Val(qz_out)[i])

\* Two cycles, the first parsed to no question and the second's validation
\* raised, ended in the two placeholder questions.
C10_Witness ==
    /\ op = "quiz" /\ qz_pc = "done"
    /\ Val(qz_in).max_retries = 2 /\ Val(qz_in).question_count = 2
    /\ qz_attempt = 1 /\ qz_strict /\ qz_last = "parse_raised"
    /\ Len(Val(qz_out)) = 2
    /\ IsFallbackQuestion(Val(qz_out)[1])

\* ------------------------------------------------------------ SpecQuestion
\* _validate_quiz_question, QuizQuestion and QuizService.generate_quiz's
\* conversion, each applied to inputs drawn from the values below.
MaxIndex == 2

PaddedOptions ==
    JList(<<JStr(<<Sp, Lit("a")>>), JStr(<<Lit("b"), Sp>>), OptC, OptD>>)
DuplicateOptions == JList(<<OptA, JStr(<<Sp, Lit("a"), Sp>>), OptC, OptD>>)
IntDuplicateOptions == JList(<<JInt(1), JStr(<<Lit("1")>>), OptC, OptD>>)
BlankOptions == JList(<<OptA, JStr(<<Sp>>), OptC, OptD>>)
TwoOptions == JList(<<OptA, OptB>>)

QuestionValues ==
    {QText("What"), JStr(<<Sp, Lit("Why"), Sp>>), JStr(<<Sp>>), Absent, JInt(7)}
OptionsValues ==
    {GoodOptions, PaddedOptions, DuplicateOptions, IntDuplicateOptions,
     BlankOptions, TwoOptions, OptA, Absent}
IndexValues ==
    {Absent, JInt(0 - 1), JInt(0), JInt(3), JInt(4), JStr(<<Lit("abc")>>),
     JStr(<<Sp, Lit("2")>>), JStr(<<Lit("7")>>), JNull, JInf, JList(<<>>)}
CamelIndexValues == {Absent, JInt(2), JInt(9)}
ExplanationValues == {Because, JStr(<<Sp>>), Absent, JInt(5)}
IdValues == {Absent, JStr(<<Lit("x")>>)}

ValidatorInputs ==
         { RawQ(q, o, ci, cc, e, i) :
             q \in QuestionValues, o \in OptionsValues, ci \in IndexValues,
             cc \in CamelIndexValues, e \in ExplanationValues, i \in IdValues }
    \cup {NotADict}

\* One call of _validate_quiz_question.
ValidateQuestion ==
    /\ op = "none"
    /\ op' = "validate"
    /\ \E question_data \in ValidatorInputs, index \in 1..MaxIndex :
          /\ vq_in' = Some([question_data |-> question_data, index |-> index])
          /\ vq_out' = Some(_validate_quiz_question(question_data, index))
    /\ UNCHANGED <<rh, execVars, pureVars, contentVars, quizVars, serviceVars, qr_in, qr_out,
                   parserVars, aggVars, chunkVars>>

\* The dataclass QuizQuestion: its generated __init__ stores the five
\* arguments as they are.
QuizQuestion(id, question, options, correct_index, explanation) ==
    [id |-> id, question |-> question, options |-> options,
     correct_index |-> correct_index, explanation |-> explanation]

\* uuid.uuid4() as a string
NewUuid == JStr(<<Lit("uuid")>>)

\* QuizQuestion.from_dict: the question, or the KeyError of data["..."].
from_dict(data) ==
    IF data.question.k = "absent" \/ data.options.k = "absent"
    THEN [raises |-> TRUE, exc |-> "KeyError"]
    ELSE [raises |-> FALSE,
          q |-> QuizQuestion(Get(data.id, NewUuid), data.question, data.options,
                             Get(data.correctIndex, Get(data.correct_index, JInt(0))),
                             Get(data.explanation, JStr(<<>>)))]

\* bool(value) for the values a field may hold.
Truthy(j) ==
    IF j.k = "str" THEN j.v # <<>>
    ELSE IF j.k = "int" THEN j.n # 0
    ELSE IF j.k \in {"list", "dict"} THEN j.items # <<>>
    ELSE j.k = "inf"

\* QuizQuestion.is_valid, for a question whose options is a list and whose
\* correct_index is an int (what the service gives it).
is_valid(q) ==
    /\ Truthy(q.question)
    /\ Len(q.options.items) >= 2
    /\ 0 <= q.correct_index.n /\ q.correct_index.n < Len(q.options.items)
    /\ Truthy(q.explanation)

\* A validated question dict as QuizService reads it.
AsDict(v) ==
    RawQ(JStr(v.question), JList([i \in DOMAIN v.options |-> JStr(v.options[i])]),
         JInt(v.correct_index), Absent, JStr(v.explanation), v.id)

\* QuizService.generate_quiz's loop body on one question of the orchestrator's
\* list: build the QuizQuestion and keep it when is_valid.
ServiceConverts ==
    /\ op = "validate" /\ qr_in = None
    /\ vq_out # None /\ Val(vq_out).kind = "ok"
    /\ LET q == AsDict(Val(vq_out).q)
           i == Val(vq_in).index
           question == QuizQuestion(Get(q.id, JStr(<<Lit("q" \o ToString(i))>>)),
                                    Get(q.question, JStr(<<>>)),
                                    Get(q.options, JList(<<>>)),
                                    Get(q.correct_index, JInt(0)),
                                    Get(q.explanation, JStr(<<>>)))
       IN /\ qr_in' = Some([via |-> "service", data |-> q])
          /\ qr_out' = Some([raises |-> FALSE, kept |-> is_valid(question),
                             q |-> question])
    /\ UNCHANGED <<rh, op, execVars, pureVars, contentVars, quizVars, serviceVars, vq_in,
                   vq_out, parserVars, aggVars, chunkVars>>

\* What a caller may hand to QuizQuestion(...) or QuizQuestion.from_dict.
RecordInputs ==
    { RawQ(q, o, ci, cc, e, i) :
        q \in {QText("What"), Absent},
        o \in {GoodOptions, DuplicateOptions, BlankOptions, TwoOptions, Absent},
        ci \in {Absent, JInt(0), JInt(4)},
        cc \in {Absent, JInt(2), JInt(9)},
        e \in {Because, Absent}, i \in IdValues }

\* QuizQuestion(...) called directly.
ConstructQuestion ==
    /\ op = "none"
    /\ op' = "construct"
    /\ \E d \in RecordInputs :
          /\ d.question.k # "absent" /\ d.options.k # "absent"
          /\ d.correct_index.k # "absent" /\ d.correctIndex.k = "absent"
          /\ d.explanation.k # "absent" /\ d.id.k # "absent"
          /\ qr_in' = Some([via |-> "init", data |-> d])
          /\ qr_out' = Some([raises |-> FALSE, kept |-> TRUE,
                             q |-> QuizQuestion(d.id, d.question, d.options,
                                                d.correct_index, d.explanation)])
    /\ UNCHANGED <<rh, execVars, pureVars, contentVars, quizVars, serviceVars, vq_in, vq_out,
                   parserVars, aggVars, chunkVars>>

\* QuizQuestion.from_dict called on a dict.
FromDict ==
    /\ op = "none"
    /\ op' = "from_dict"
    /\ \E d \in RecordInputs :
          /\ qr_in' = Some([via |-> "from_dict", data |-> d])
          /\ qr_out' = Some(LET r == from_dict(d) IN
                            IF r.raises
                            THEN [raises |-> TRUE, kept |-> FALSE,
                                  q |-> QuizQuestion(Absent, Absent, Absent,
                                                     Absent, Absent)]
                            ELSE [raises |-> FALSE, kept |-> TRUE, q |-> r.q])
    /\ UNCHANGED <<rh, execVars, pureVars, contentVars, quizVars, serviceVars, vq_in, vq_out,
                   parserVars, aggVars, chunkVars>>

NextQuestion ==
    \/ ValidateQuestion
    \/ ServiceConverts
    \/ ConstructQuestion
    \/ FromDict

SpecQuestion == InitErr /\ [][NextQuestion]_vars

\* The index a question dict gives, under either key, and whether it can be
\* coerced to an integer in [0,4).
IndexGiven(d) == Get(d.correct_index, d.correctIndex)
CoercibleIndex(j) == PyInt(j).ok /\ PyInt(j).n \in 0..3

\* C11: a dict whose correct_index is present but is no integer in [0,4)
\* (out of range or not numeric) is answered with None; an accepted question
\* without any index has correct_index 0.
C11_InvalidIndexRejected ==
    (op = "validate" /\ Val(vq_in).question_data.isdict) =>
        LET given == IndexGiven(Val(vq_in).question_data)
            out == Val(vq_out)
        IN /\ (given.k # "absent" /\ ~CoercibleIndex(given)) => out.kind = "none"
           /\ (given.k = "absent" /\ out.kind = "ok") => out.q.correct_index = 0

\* The options of a dict as the validator compares them.
TrimmedOptions(d) ==
    [i \in DOMAIN d.options.items |-> Strip(PyStr(d.options.items[i]))]
HasDuplicateOption(d) ==
    /\ d.isdict /\ d.options.k = "list" /\ Len(d.options.items) = 4
    /\ Cardinality({TrimmedOptions(d)[i] : i \in 1..4}) < 4

\* What the claim says of a returned record.
ValidatedRecordOk(d, index, q) ==
    /\ q.question # <<>> /\ q.question = Strip(d.question.v)
    /\ Len(q.options) = 4
    /\ \A i \in 1..4 : q.options[i] # <<>> /\ q.options[i] = Strip(q.options[i])
    /\ \A i, j \in 1..4 : i # j => q.options[i] # q.options[j]
    /\ q.correct_index \in 0..3
    /\ q.explanation # <<>>
    /\ (d.explanation.k = "absent" \/ Strip(d.explanation.v) = <<>>)
           => q.explanation = NoExplanation
    /\ q.id = (IF d.id.k = "absent" THEN JStr(<<Lit("q" \o ToString(index))>>)
               ELSE d.id)

\* Every record _validate_quiz_question returns is as the claim says, and no
\* dict with a duplicate option is accepted.
ValidatedRecordsOk ==
    (op = "validate" /\ Val(vq_out).kind = "ok") =>
        /\ ValidatedRecordOk(Val(vq_in).question_data, Val(vq_in).index,
                             Val(vq_out).q)
        /\ ~HasDuplicateOption(Val(vq_in).question_data)

\* C12: for every input _validate_quiz_question returns None or a record
\* with a trimmed non-empty question, 4 trimmed non-empty distinct options,
\* correct_index in [0,4), a non-empty explanation and the given or default
\* id; an input with a duplicate option is answered with None.
C12_NoneOrValidRecord ==
    op = "validate" =>
        LET d == Val(vq_in).question_data
            out == Val(vq_out)
        IN /\ out.kind \in {"none", "ok"}
           /\ out.kind = "ok" => ValidatedRecordOk(d, Val(vq_in).index, out.q)
           /\ HasDuplicateOption(d) => out.kind = "none"

\* A question record holding exactly 4 non-empty options, distinct after
\* trimming, and an index into them.
RecordInvariant(q) ==
    /\ q.options.k = "list" /\ Len(q.options.items) = 4
    /\ \A i \in 1..4 : /\ q.options.items[i].k = "str"
                       /\ Strip(q.options.items[i].v) # <<>>
    /\ \A i, j \in 1..4 :
           i # j => Strip(q.options.items[i].v) # Strip(q.options.items[j].v)
    /\ q.correct_index.k = "int" /\ q.correct_index.n \in 0..3

\* C13: every QuizQuestion that comes to exist (by the constructor, by
\* from_dict, or kept by QuizService) satisfies the record invariant.
C13_RecordInvariantAtConstruction ==
    (qr_out # None /\ ~Val(qr_out).raises /\ Val(qr_out).kept)
        => RecordInvariant(Val(qr_out).q)

\* The questions QuizService keeps from validated orchestrator output do
\* satisfy it.
ServiceRecordsOk ==
    (qr_out # None /\ Val(qr_in).via = "service" /\ Val(qr_out).kept)
        => RecordInvariant(Val(qr_out).q)

\* ------------------------------------------------------------ json
\* The text of a model response is a sequence of characters, each a part;
\* a run of letters that no operation looks into (a word, "json", "null")
\* is kept as one part.
LBrace == Lit("{")
RBrace == Lit("}")
LBrack == Lit("[")
RBrack == Lit("]")
Quote == Lit("\"")
Colon == Lit(":")
Comma == Lit(",")
\* The backquote character.
Tick == Lit("backquote")
Fence == <<Tick, Tick, Tick>>

\* json.loads also yields dicts: the pairs of a dict in document order.
JDict(pairs) == [k |-> "dict", v |-> <<>>, n |-> 0, items |-> pairs]
JPair(key, value) == [k |-> "pair", v |-> key, n |-> 0, items |-> <<value>>]

\* dict.get(key): the value of the last pair with the key, as json.loads
\* keeps it; Absent when there is none.
RECURSIVE Lookup(_, _)
Lookup(pairs, key) ==
    IF pairs = <<>> THEN Absent
    ELSE LET last == pairs[Len(pairs)] IN
         IF last.v = key THEN last.items[1]
         ELSE Lookup(SubSeq(pairs, 1, Len(pairs) - 1), key)

\* json.dumps(value), with its ", " and ": " separators.
RECURSIVE Dumps(_)
RECURSIVE DumpsItems(_)
DumpsItems(items) ==
    IF items = <<>> THEN <<>>
    ELSE LET first == IF items[1].k = "pair"
                      THEN <<Quote>> \o items[1].v \o <<Quote, Colon, Sp>>
                           \o Dumps(items[1].items[1])
                      ELSE Dumps(items[1])
         IN IF Len(items) = 1 THEN first
            ELSE first \o <<Comma, Sp>> \o DumpsItems(Tail(items))
Dumps(j) ==
    IF j.k = "str" THEN <<Quote>> \o j.v \o <<Quote>>
    ELSE IF j.k = "int" THEN <<Lit(ToString(j.n))>>
    ELSE IF j.k = "null" THEN <<Lit("null")>>
    ELSE IF j.k = "inf" THEN <<Lit("Infinity")>>
    ELSE IF j.k = "list" THEN <<LBrack>> \o DumpsItems(j.items) \o <<RBrack>>
    ELSE <<LBrace>> \o DumpsItems(j.items) \o <<RBrace>>

\* str.find(c, i): the first position of c at or after i, 0 when there is
\* none.
Lowest(S) == CHOOSE k \in S : \A m \in S : k <= m
Find(s, c, i) ==
    LET found == {k \in i..Len(s) : s[k] = c} IN
    IF found = {} THEN 0 ELSE Lowest(found)

\* str.startswith(prefix)
StartsWith(s, prefix) ==
    Len(s) >= Len(prefix) /\ SubSeq(s, 1, Len(prefix)) = prefix

\* The first position at or after i that holds no whitespace.
SkipWs(s, i) ==
    LET others == {k \in i..Len(s) : s[k] \notin WhiteSpace} IN
    IF others # {} THEN Lowest(others)
    ELSE IF i > Len(s) THEN i ELSE Len(s) + 1

\* The decoder of json.loads: the value that starts at position i and the
\* position after it, or a JSONDecodeError.
DecodeError == [ok |-> FALSE, val |-> JNull, next |-> 0]
Decoded(val, next) == [ok |-> TRUE, val |-> val, next |-> next]
IsIntLiteral(c) == \E d \in IntLiterals : c = Lit(ToString(d))
RECURSIVE ParseValue(_, _)
RECURSIVE ParseElements(_, _, _)
RECURSIVE ParseMembers(_, _, _)
ParseValue(s, i0) ==
    LET i == SkipWs(s, i0) IN
    IF i > Len(s) THEN DecodeError
    ELSE IF s[i] = Quote
    THEN LET j == Find(s, Quote, i + 1) IN
         IF j = 0 \/ \E m \in (i + 1)..(j - 1) : s[m] = Nl THEN DecodeError
         ELSE Decoded(JStr(SubSeq(s, i + 1, j - 1)), j + 1)
    ELSE IF s[i] = LBrace
    THEN LET j == SkipWs(s, i + 1) IN
         IF j <= Len(s) /\ s[j] = RBrace THEN Decoded(JDict(<<>>), j + 1)
         ELSE ParseMembers(s, j, <<>>)
    ELSE IF s[i] = LBrack
    THEN LET j == SkipWs(s, i + 1) IN
         IF j <= Len(s) /\ s[j] = RBrack THEN Decoded(JList(<<>>), j + 1)
         ELSE ParseElements(s, j, <<>>)
    ELSE IF s[i] = Lit("null") THEN Decoded(JNull, i + 1)
    ELSE IF s[i] = Lit("Infinity") THEN Decoded(JInf, i + 1)
    ELSE IF IsIntLiteral(s[i])
    THEN Decoded(JInt(CHOOSE d \in IntLiterals : s[i] = Lit(ToString(d))),
                 i + 1)
    ELSE DecodeError
ParseElements(s, i, acc) ==
    LET r == ParseValue(s, i) IN
    IF ~r.ok THEN DecodeError
    ELSE LET j == SkipWs(s, r.next)
             items == Append(acc, r.val)
         IN IF j > Len(s) THEN DecodeError
            ELSE IF s[j] = RBrack THEN Decoded(JList(items), j + 1)
            ELSE IF s[j] = Comma THEN ParseElements(s, j + 1, items)
            ELSE DecodeError
ParseMembers(s, i0, acc) ==
    LET i == SkipWs(s, i0) IN
    IF i > Len(s) \/ s[i] # Quote THEN DecodeError
    ELSE LET q == Find(s, Quote, i + 1) IN
    IF q = 0 \/ \E m \in (i + 1)..(q - 1) : s[m] = Nl THEN DecodeError
    ELSE LET c == SkipWs(s, q + 1) IN
    IF c > Len(s) \/ s[c] # Colon THEN DecodeError
    ELSE LET r == ParseValue(s, c + 1) IN
    IF ~r.ok THEN DecodeError
    ELSE LET j == SkipWs(s, r.next)
             pairs == Append(acc, JPair(SubSeq(s, i + 1, q - 1), r.val))
         IN IF j > Len(s) THEN DecodeError
            ELSE IF s[j] = RBrace THEN Decoded(JDict(pairs), j + 1)
            ELSE IF s[j] = Comma THEN ParseMembers(s, j + 1, pairs)
            ELSE DecodeError

\* json.loads(s): one value and nothing but whitespace after it.
json_loads(s) ==
    LET r == ParseValue(s, 1) IN
    IF r.ok /\ SkipWs(s, r.next) > Len(s) THEN r ELSE DecodeError

\* re.search of the pattern fence, optional json, whitespace, (lazy group),
\* whitespace, fence in a text that starts with a fence: group(1), when a
\* closing fence follows.
FindFence(s, i) ==
    LET found == {k \in i..(Len(s) - 2) : SubSeq(s, k, k + 2) = Fence} IN
    IF found = {} THEN 0 ELSE Lowest(found)
re_search_fence(json_str) ==
    LET after == IF Len(json_str) >= 4 /\ json_str[4] = Lit("json")
                 THEN 5 ELSE 4
        start == SkipWs(json_str, after)
        close == FindFence(json_str, after)
    IN IF close = 0 THEN [match |-> FALSE, group |-> <<>>]
       ELSE [match |-> TRUE,
             group |-> IF start >= close THEN <<>>
                       ELSE RStrip(SubSeq(json_str, start, close - 1))]

\* The scan for the close that matches the first open, counting depth.
\* The count after position k is the opens less the closes from start to
\* k; the scan stops at the first close that brings it to 0.
MatchingClose(s, open, close, start) ==
    LET count(k) == Cardinality({m \in start..k : s[m] = open})
                    - Cardinality({m \in start..k : s[m] = close})
        ends == {k \in start..Len(s) : s[k] = close /\ count(k) = 0}
    IN IF ends = {} THEN 0 ELSE Lowest(ends)

\* json_str as both parsers compute it from a non-empty response: stripped,
\* taken out of a code fence, cut to the span from the first open to its
\* matching close when the text does not start with the open.
json_str(response, open, close) ==
    LET stripped == Strip(response)
        fenced == IF StartsWith(stripped, Fence)
                  THEN LET match == re_search_fence(stripped) IN
                       IF match.match THEN Strip(match.group) ELSE stripped
                  ELSE stripped
    IN IF StartsWith(fenced, <<open>>) THEN fenced
       ELSE LET start == Find(fenced, open, 1) IN
            IF start = 0 THEN fenced
            ELSE LET end == MatchingClose(fenced, open, close, start) IN
                 IF end = 0 THEN fenced
                 ELSE SubSeq(fenced, start, end)

\* ------------------------------------------------------------ parsers
\* The extraction result with all its fields; key_points and topics are
\* sequences of texts, concepts a sequence of term/definition records.
ContentResult(title, summary, key_points, concepts, topics, source_type,
              processing_status, error_message) ==
    [title |-> title, summary |-> summary, key_points |-> key_points,
     concepts |-> concepts, topics |-> topics, source_type |-> source_type,
     processing_status |-> processing_status, error_message |-> error_message]
Concept(term, definition) == [term |-> term, definition |-> definition]

Key(w) == <<Lit(w)>>
ExtractedContent == Words(<<"Extracted", "Content">>)
NoSummary == Words(<<"No", "summary", "available.">>)
NoKeyPoints == Words(<<"No", "key", "points", "extracted.">>)

\* [f(x) for x in items if x]
RECURSIVE StrippedTruthy(_)
StrippedTruthy(items) ==
    IF items = <<>> THEN <<>>
    ELSE IF Truthy(items[1])
    THEN <<Strip(PyStr(items[1]))>> \o StrippedTruthy(Tail(items))
    ELSE StrippedTruthy(Tail(items))

\* The loop over data['concepts'].
RECURSIVE NormalizedConcepts(_)
NormalizedConcepts(concepts) ==
    IF concepts = <<>> THEN <<>>
    ELSE LET c == concepts[1] IN
         IF c.k = "dict" /\ Truthy(Get(Lookup(c.items, Key("term")), JNull))
         THEN <<Concept(Strip(PyStr(Lookup(c.items, Key("term")))),
                        Strip(PyStr(Get(Lookup(c.items, Key("definition")),
                                        JStr(<<>>)))))>>
              \o NormalizedConcepts(Tail(concepts))
         ELSE NormalizedConcepts(Tail(concepts))

ListOrEmpty(j) == IF j.k = "list" THEN j.items ELSE <<>>

\* _normalize_content_result on the decoded value: the result, or the
\* AttributeError of .get on a value that is no dict and of .strip() on a
\* title or summary that is no string.
normalize_content_result(data, content_type, filename) ==
    IF data.k # "dict" THEN [raises |-> TRUE, exc |-> "AttributeError"]
    ELSE LET raw_title == Get(Lookup(data.items, Key("title")), JStr(<<>>)) IN
    IF raw_title.k # "str" THEN [raises |-> TRUE, exc |-> "AttributeError"]
    ELSE LET raw_summary == Get(Lookup(data.items, Key("summary")), JStr(<<>>)) IN
    IF raw_summary.k # "str" THEN [raises |-> TRUE, exc |-> "AttributeError"]
    ELSE LET key_points ==
                 StrippedTruthy(ListOrEmpty(
                     Get(Lookup(data.items, Key("key_points")), JList(<<>>))))
             concepts ==
                 ListOrEmpty(Get(Lookup(data.items, Key("concepts")), JList(<<>>)))
             topics ==
                 StrippedTruthy(ListOrEmpty(
                     Get(Lookup(data.items, Key("topics")), JList(<<>>))))
         IN [raises |-> FALSE,
             value |-> ContentResult(
                 IF Strip(raw_title.v) # <<>> THEN Strip(raw_title.v)
                 ELSE IF filename # <<>> THEN filename ELSE ExtractedContent,
                 IF Strip(raw_summary.v) # <<>> THEN Strip(raw_summary.v)
                 ELSE NoSummary,
                 IF key_points = <<>> THEN <<NoKeyPoints>> ELSE key_points,
                 NormalizedConcepts(concepts),
                 topics,
                 content_type, "complete", None)]

\* str.split('\n')
RECURSIVE SplitLines(_)
SplitLines(txt) ==
    LET i == Find(txt, Nl, 1) IN
    IF i = 0 THEN <<txt>>
    ELSE <<SubSeq(txt, 1, i - 1)>> \o SplitLines(SubSeq(txt, i + 1, Len(txt)))

\* ' '.join(lines)
RECURSIVE JoinBySpace(_)
JoinBySpace(lines) ==
    IF lines = <<>> THEN <<>>
    ELSE IF Len(lines) = 1 THEN lines[1]
    ELSE lines[1] \o <<Sp>> \o JoinBySpace(Tail(lines))

\* len(text): the characters of all its parts.
RECURSIVE CharLen(_)
CharLen(txt) ==
    IF txt = <<>> THEN 0
    ELSE IF Len(txt) = 1 THEN Len(txt[1].s)
    ELSE CharLen(SubSeq(txt, 1, Len(txt) \div 2))
         + CharLen(SubSeq(txt, Len(txt) \div 2 + 1, Len(txt)))

MaxTitleChars == 100
SummaryChars == 500
ParseFailedPoint ==
    Words(<<"Content", "was", "processed", "but", "structured", "extraction",
            "failed.">>)
CouldNotParse ==
    Words(<<"Could", "not", "parse", "structured", "response", "from", "AI.">>)

\* _extract_from_plain_text on the characters of the response.
extract_from_plain_text(response, content_type, filename) ==
    LET lines == SplitLines(Strip(response))
        first == Strip(lines[1])
    IN ContentResult(
           IF CharLen(first) > MaxTitleChars
           THEN IF filename # <<>> THEN filename ELSE ExtractedContent
           ELSE first,
           IF Len(lines) > 1 THEN Strip(JoinBySpace(Tail(lines)))
           ELSE IF CharLen(response) <= SummaryChars THEN response
           ELSE SubSeq(response, 1, Min(SummaryChars, Len(response))),
           <<ParseFailedPoint>>, <<>>, <<>>,
           content_type, "partial", Some(CouldNotParse))

\* _create_fallback_content_result with all its fields.
create_fallback_content_result(content_type, filename) ==
    ContentResult(
        IF filename # <<>> THEN filename ELSE Words(<<"Uploaded", "Content">>),
        <<LBrack, Lit("Fallback"), Lit("Mode"), RBrack, Lit("Content"),
          Lit("of"), Lit("type"), CType(content_type), Lit("was"),
          Lit("uploaded."), Lit("AI"), Lit("analysis"), Lit("is"),
          Lit("currently"), Lit("unavailable.")>>,
        <<<<LBrack, Lit("Fallback"), RBrack>>
            \o Words(<<"Content", "uploaded", "successfully">>),
          <<LBrack, Lit("Fallback"), RBrack>>
            \o Words(<<"AI", "analysis", "unavailable", "-", "please",
                       "configure", "NEBIUS_API_KEY">>)>>,
        <<>>, <<>>, content_type, "partial",
        Some(Words(<<"AI", "service", "unavailable.", "Using", "fallback",
                     "mode.">>)))

\* What a parser call comes to: the value it returns or the exception it
\* lets through, with the value json.loads gave it (None when json.loads
\* was not reached or raised JSONDecodeError).
ParserReturns(data, value) ==
    [raises |-> FALSE, exc |-> "", data |-> data, value |-> value]
ParserRaises(data, exc) ==
    [raises |-> TRUE, exc |-> exc, data |-> data, value |-> <<>>]

\* _parse_content_response on the characters of the response.
parse_content_response(response, content_type, filename) ==
    IF response = <<>>
    THEN ParserReturns(None, create_fallback_content_result(content_type, filename))
    ELSE LET decoded == json_loads(json_str(response, LBrace, RBrace)) IN
         IF ~decoded.ok
         THEN ParserReturns(None, extract_from_plain_text(response, content_type,
                                                          filename))
         ELSE LET n == normalize_content_result(decoded.val, content_type,
                                                filename)
              IN IF n.raises THEN ParserRaises(Some(decoded.val), n.exc)
                 ELSE ParserReturns(Some(decoded.val), n.value)

\* An element of the decoded array as the validator reads it.
QuestionData(j) ==
    IF j.k # "dict" THEN NotADict
    ELSE RawQ(Lookup(j.items, Key("question")), Lookup(j.items, Key("options")),
              Lookup(j.items, Key("correct_index")),
              Lookup(j.items, Key("correctIndex")),
              Lookup(j.items, Key("explanation")), Lookup(j.items, Key("id")))

\* _parse_quiz_response on the characters of the response.
parse_quiz_response(response, expected_count) ==
    IF response = <<>> THEN ParserReturns(None, <<>>)
    ELSE LET decoded == json_loads(json_str(response, LBrack, RBrack)) IN
         IF ~decoded.ok THEN ParserReturns(None, <<>>)
         ELSE IF decoded.val.k # "list"
         THEN ParserReturns(Some(decoded.val), <<>>)
         ELSE LET validated ==
                      ValidateFrom([i \in DOMAIN decoded.val.items |->
                                       QuestionData(decoded.val.items[i])],
                                   1, <<>>)
              IN IF validated.raises
                 THEN ParserRaises(Some(decoded.val), validated.exc)
                 ELSE ParserReturns(Some(decoded.val), validated.qs)

\* The slice [:10] both combiners end with.
MaxKept == 10

\* JSON objects a content call may be answered with.
JText(w) == JStr(<<Lit(w)>>)
TitleOnly == JDict(<<JPair(Key("title"), JText("T"))>>)
RepeatingDoc ==
    JDict(<<JPair(Key("title"), JStr(<<Sp, Lit("T"), Sp>>)),
            JPair(Key("summary"), JText("S")),
            JPair(Key("key_points"),
                  JList(<<JText("a"), JStr(<<Lit("a"), Sp>>), JText("b")>>)),
            JPair(Key("concepts"),
                  JList(<<JDict(<<JPair(Key("term"), JText("x")),
                                  JPair(Key("definition"), JText("d"))>>),
                          JDict(<<JPair(Key("term"), JText("x"))>>),
                          JInt(7)>>)),
            JPair(Key("topics"), JList(<<JText("t"), JText("t"), JNull>>))>>)
ManyKeyPoints ==
    JDict(<<JPair(Key("key_points"),
                  JList([i \in 1..(MaxKept + 1) |->
                            JStr(<<Lit("p"), Lit(ToString(i))>>)]))>>)
NestedDoc ==
    JDict(<<JPair(Key("meta"), JDict(<<JPair(Key("a"), JDict(<<>>))>>)),
            JPair(Key("title"), JText("T"))>>)
BraceInString ==
    JDict(<<JPair(Key("title"), JStr(<<Lit("a"), RBrace, Lit("b")>>))>>)
IntTitle == JDict(<<JPair(Key("title"), JInt(7))>>)
NullSummary ==
    JDict(<<JPair(Key("title"), JText("T")), JPair(Key("summary"), JNull)>>)
JsonObjects ==
    {TitleOnly, RepeatingDoc, ManyKeyPoints, NestedDoc, BraceInString,
     JDict(<<>>), IntTitle, NullSummary}

\* JSON arrays a quiz call may be answered with.
QuestionJson(question, options, correct_index) ==
    JDict(<<JPair(Key("question"), question), JPair(Key("options"), options),
            JPair(Key("correct_index"), correct_index),
            JPair(Key("explanation"), Because)>>)
GoodQuestionJson == QuestionJson(QText("What"), GoodOptions, JInt(1))
JsonArrays ==
    {JList(<<>>), JList(<<GoodQuestionJson>>),
     JList(<<JList(<<JInt(1)>>), GoodQuestionJson>>),
     JList(<<QuestionJson(JInt(7), GoodOptions, JInt(0))>>),
     JList(<<QuestionJson(JStr(<<Lit("Which"), RBrack, Lit("?")>>),
                          GoodOptions, JInt(0))>>),
     JList(<<QuestionJson(QText("What"), GoodOptions, JText("abc")),
             JInt(7)>>)}

\* Valid JSON of another top-level type.
OtherJson ==
    {JInt(7), JNull, JText("x"),
     JDict(<<JPair(Key("questions"), JList(<<GoodQuestionJson>>))>>)}

\* The text around the JSON: a code fence with or without the word json,
\* prose before (plain, or with a brace and a bracket in it), prose after.
ProseBefore == <<Lit("Here"), Sp, Lit("you"), Sp, Lit("go"), Colon, Nl>>
BracketedProse ==
    <<Lit("Note"), Sp, LBrace, Lit("x"), RBrace, Sp, LBrack, Lit("1"), RBrack,
      Colon, Sp>>
ProseAfter == <<Nl, Lit("Hope"), Sp, Lit("this"), Sp, Lit("helps"), Lit("!")>>
Wrappings ==
    [fence : {"none", "plain", "json"},
     before : {<<>>, ProseBefore, BracketedProse},
     after : {<<>>, ProseAfter}]
Wrap(chars, w) ==
    w.before
    \o (IF w.fence = "none" THEN chars
        ELSE Fence \o (IF w.fence = "json" THEN <<Lit("json")>> ELSE <<>>)
             \o <<Nl>> \o chars \o <<Nl>> \o Fence)
    \o w.after

\* Responses from which no JSON decodes: empty, blank, prose, unbalanced
\* braces and brackets, a fence that is never closed.
MalformedResponses ==
    { <<>>, <<Sp, Nl>>,
      <<Lit("This"), Sp, Lit("is"), Sp, Lit("not"), Sp, Lit("JSON"), Nl,
        Lit("just"), Sp, Lit("text"), Nl, Lit("analysis.")>>,
      <<LBrace, Quote, Lit("title"), Quote, Colon>>,
      <<RBrace, Sp, LBrace>>,
      <<LBrack, LBrack, RBrack>>,
      <<Lit("x"), Sp, LBrack, LBrace, RBrack>>,
      Fence \o <<Lit("json"), Nl>> \o Dumps(TitleOnly),
      Fence \o <<Nl>> \o Dumps(JList(<<>>)) }

Responses(docs) ==
    {Wrap(Dumps(j), w) : j \in docs, w \in Wrappings} \cup MalformedResponses
FileNames == {<<>>, <<FileName>>}

\* _parse_content_response(response, content_type, filename), as
\* _process_single_chunk calls it and returns its result.
ParseContent ==
    /\ op = "none"
    /\ ps_in = None
    /\ \E response \in Responses(JsonObjects \cup JsonArrays \cup OtherJson),
          filename \in FileNames :
         /\ ps_in' = Some([fn |-> "content", response |-> response,
                           content_type |-> "text", filename |-> filename,
                           expected_count |-> 0])
         /\ ps_out' = Some(parse_content_response(response, "text", filename))
    /\ op' = "parse_content"
    /\ UNCHANGED <<rh, execVars, pureVars, contentVars, quizVars, serviceVars,
                   validatorVars, aggVars, chunkVars>>

\* _parse_quiz_response(response, expected_count)
ParseQuiz ==
    /\ op = "none"
    /\ ps_in = None
    /\ \E response \in Responses(JsonArrays \cup JsonObjects \cup OtherJson),
          expected_count \in 1..MaxQuestionCount :
         /\ ps_in' = Some([fn |-> "quiz", response |-> response,
                           content_type |-> "", filename |-> <<>>,
                           expected_count |-> expected_count])
         /\ ps_out' = Some(parse_quiz_response(response, expected_count))
    /\ op' = "parse_quiz"
    /\ UNCHANGED <<rh, execVars, pureVars, contentVars, quizVars, serviceVars,
                   validatorVars, aggVars, chunkVars>>

NextParse ==
    \/ ParseContent
    \/ ParseQuiz

SpecParse == InitErr /\ [][NextParse]_vars

\* C14: whatever the response text, _parse_content_response returns a
\* result dict and _parse_quiz_response returns a list; neither lets an
\* exception through.
C14_ParsersNeverRaise ==
    op \in {"parse_content", "parse_quiz"} => ~Val(ps_out).raises

\* Noise the extraction is meant to remove: a code fence around the JSON, or
\* brace-free prose before and/or after it.
NoisyWrappings ==
    {w \in Wrappings :
        /\ w.before \in {<<>>, ProseBefore}
        /\ \/ w.fence # "none" /\ w.before = <<>> /\ w.after = <<>>
           \/ w.fence = "none" /\ (w.before # <<>> \/ w.after # <<>>)}
Expected(fn) == IF fn = "content" THEN JsonObjects ELSE JsonArrays

\* C15: when the response is a valid JSON object (array for the quiz
\* parser) J inside a code fence, or with prose before and/or after it, the
\* value the parser decodes is exactly J.
C15_DecodesJsonInNoise ==
    op \in {"parse_content", "parse_quiz"} =>
        \A j \in Expected(Val(ps_in).fn), w \in NoisyWrappings :
            Val(ps_in).response = Wrap(Dumps(j), w) =>
                Val(ps_out).data = Some(j)

\* What does hold: JSON in a fence, or after brace-free prose, with no
\* brace or bracket inside its strings, is decoded exactly.
LeadingNoise ==
    {w \in NoisyWrappings : w.after = <<>>}
DecodesJsonAfterLeadingNoise ==
    op \in {"parse_content", "parse_quiz"} =>
        \A j \in Expected(Val(ps_in).fn), w \in LeadingNoise :
            (/\ Val(ps_in).response = Wrap(Dumps(j), w)
             /\ \/ w.fence # "none"
                \/ j \notin {BraceInString} /\ j.k = "dict"
                \/ j.k = "list" /\ \A i \in DOMAIN j.items :
                       j.items[i].k = "dict" =>
                           Find(Lookup(j.items[i].items, Key("question")).v,
                                RBrack, 1) = 0)
            => Val(ps_out).data = Some(j)

\* ------------------------------------------------------------ combiners
MaxResults == 2

\* str.lower(), for the letters the texts here are made of.
UpperCase ==
    {<<"A", "a">>, <<"T", "t">>, <<"U", "u">>, <<"X", "x">>,
     <<"Same", "same">>, <<"Point", "point">>}
LowerPart(c) ==
    IF \E u \in UpperCase : c = Lit(u[1])
    THEN Lit((CHOOSE u \in UpperCase : c = Lit(u[1]))[2])
    ELSE c
Lower(txt) == [i \in DOMAIN txt |-> LowerPart(txt[i])]

\* point.lower().strip(), the key an entry is remembered under.
seen_key_CaseSensitive(txt) == Strip(txt)
seen_key(txt) == Strip(Lower(txt))

\* for result in results: for x in result.get(field, []), as one list.
RECURSIVE Flatten(_, _)
Flatten(results, field) ==
    IF results = <<>> THEN <<>>
    ELSE results[1][field] \o Flatten(Tail(results), field)

\* The loops that collect entries: an entry that passes the loop's test is
\* appended unless its key is already in the seen set.
RECURSIVE Collect(_, _, _, _, _, _)
Collect(items, keys, passes, i, seen, all) ==
    IF i > Len(items) THEN all
    ELSE IF passes[i] /\ keys[i] \notin seen
    THEN Collect(items, keys, passes, i + 1, seen \cup {keys[i]},
                 Append(all, items[i]))
    ELSE Collect(items, keys, passes, i + 1, seen, all)

\* seq[:n]
Take(seq, n) == SubSeq(seq, 1, Min(n, Len(seq)))

PartMarker == Lit("(part")
Dot == Lit(".")

\* ' '.join of the summaries that are not empty.
RECURSIVE JoinedSummaries(_)
JoinedSummaries(results) ==
    IF results = <<>> THEN <<>>
    ELSE LET rest == JoinedSummaries(Tail(results)) IN
         IF results[1].summary = <<>> THEN rest
         ELSE IF rest = <<>> THEN results[1].summary
         ELSE results[1].summary \o <<Sp>> \o rest

\* _combine_chunk_results with all the fields of the results.
combine_chunk_results(chunk_results, content_type, filename) ==
    LET first_title == chunk_results[1].title
        marker == Find(first_title, PartMarker, 1)
        points == Flatten(chunk_results, "key_points")
        concepts == Flatten(chunk_results, "concepts")
        terms == [i \in DOMAIN concepts |-> seen_key(concepts[i].term)]
        topics == Flatten(chunk_results, "topics")
    IN ContentResult(
           IF marker # 0 THEN Strip(SubSeq(first_title, 1, marker - 1))
           ELSE first_title,
           JoinedSummaries(chunk_results),
           Take(Collect(points, [i \in DOMAIN points |-> seen_key(points[i])],
                        [i \in DOMAIN points |-> TRUE], 1, {}, <<>>),
                MaxKept),
           Take(Collect(concepts, terms,
                        [i \in DOMAIN concepts |-> terms[i] # <<>>], 1, {}, <<>>),
                MaxKept),
           Take(Collect(topics, [i \in DOMAIN topics |-> seen_key(topics[i])],
                        [i \in DOMAIN topics |-> TRUE], 1, {}, <<>>),
                MaxKept),
           content_type, "complete", None)

\* text.startswith('[')
StartsWithOpen(txt) == txt # <<>> /\ txt[1] = LBrack

\* The [Frame i] summaries of the analyses from the i-th on, joined.
RECURSIVE JoinedFrameSummaries(_, _)
JoinedFrameSummaries(frame_analyses, i) ==
    IF i > Len(frame_analyses) THEN <<>>
    ELSE LET summary == frame_analyses[i].summary
             rest == JoinedFrameSummaries(frame_analyses, i + 1)
             framed == <<LBrack, Lit("Frame"), Sp, Num(i), RBrack, Sp>> \o summary
         IN IF summary = <<>> \/ StartsWithOpen(summary) THEN rest
            ELSE IF rest = <<>> THEN framed
            ELSE framed \o <<Sp>> \o rest

\* filename.rsplit('.', 1)[0] if '.' in filename else filename
Stem(filename) ==
    LET dots == {i \in DOMAIN filename : filename[i] = Dot} IN
    IF dots = {} THEN filename
    ELSE SubSeq(filename, 1, (CHOOSE i \in dots : \A j \in dots : j <= i) - 1)

\* _combine_video_frame_analyses with all the fields of the analyses.
combine_video_frame_analyses(frame_analyses, filename) ==
    LET first_title == IF frame_analyses = <<>> THEN <<>>
                       ELSE frame_analyses[1].title
        summaries == JoinedFrameSummaries(frame_analyses, 1)
        points == Flatten(frame_analyses, "key_points")
        concepts == Flatten(frame_analyses, "concepts")
        terms == [i \in DOMAIN concepts |-> seen_key(concepts[i].term)]
        topics == Flatten(frame_analyses, "topics")
    IN ContentResult(
           IF first_title # <<>> /\ ~StartsWithOpen(first_title)
           THEN first_title ELSE Stem(filename),
           IF summaries # <<>> THEN summaries
           ELSE Words(<<"Video", "analysis", "of">>) \o filename,
           Take(Collect(points, [i \in DOMAIN points |-> seen_key(points[i])],
                        [i \in DOMAIN points |->
                            points[i] # <<>> /\ ~StartsWithOpen(points[i])],
                        1, {}, <<>>),
                MaxKept),
           Take(Collect(concepts, terms,
                        [i \in DOMAIN concepts |-> terms[i] # <<>>], 1, {}, <<>>),
                MaxKept),
           Take(Collect(topics, [i \in DOMAIN topics |-> seen_key(topics[i])],
                        [i \in DOMAIN topics |-> topics[i] # <<>>], 1, {}, <<>>),
                MaxKept),
           "video", "complete", None)

\* The file names of the documents and videos combined here.
AggFileNames == {<<Lit("notes")>>, <<Lit("clip"), Dot, Lit("mp4")>>}

\* f"{filename} (part {i}/{n})", the name _process_large_document gives
\* the chunk's call.
PartName(filename, i, n) ==
    filename \o <<Sp, PartMarker, Sp, Num(i), Lit("/"), Num(n), Lit(")")>>

\* Results as the parser returns them for a chunk or a frame: normalized
\* objects (with key points that differ in case only, a key point that
\* starts with a bracket, a concept whose term is blank, no title, more
\* key points than are kept), the plain-text result, the fallback result.
SamePoint == <<Lit("Same"), Sp, Lit("Point")>>
PartResults(name) ==
    { ContentResult(<<Lit("T")>>, <<Lit("S")>>,
                    <<SamePoint, <<Lit("a")>>>>,
                    <<Concept(<<Lit("x")>>, <<Lit("d")>>)>>,
                    <<<<Lit("t")>>>>, "text", "complete", None),
      ContentResult(<<Lit("U")>>, <<Lit("S2")>>,
                    <<Lower(SamePoint), <<Lit("A")>>,
                      <<LBrack, Lit("1"), RBrack, Sp, Lit("rule")>>>>,
                    <<Concept(<<Lit("X")>>, <<Lit("e")>>),
                      Concept(<<>>, <<Lit("f")>>)>>,
                    <<<<Lit("T")>>, <<Lit("u")>>>>, "text", "complete", None),
      normalize_content_result(JDict(<<>>), "text", name).value,
      normalize_content_result(ManyKeyPoints, "text", name).value,
      extract_from_plain_text(<<Lit("Plain"), Nl, Lit("text")>>, "text", name),
      create_fallback_content_result("text", name) }

\* _combine_chunk_results(chunk_results, content_type, filename), on the
\* results _process_large_document collected.
CombineChunks ==
    /\ op = "none"
    /\ ag_in = None
    /\ \E filename \in AggFileNames, n \in 1..MaxResults :
         \E chunk_results \in
              {r \in [1..n -> UNION {PartResults(PartName(filename, i, n)) :
                                        i \in 1..n}] :
                  \A i \in 1..n : r[i] \in PartResults(PartName(filename, i, n))} :
            /\ ag_in' = Some([fn |-> "chunks", results |-> chunk_results,
                              filename |-> filename])
            /\ ag_out' = Some(combine_chunk_results(chunk_results, "text",
                                                    filename))
    /\ op' = "combine"
    /\ UNCHANGED <<rh, execVars, pureVars, contentVars, quizVars, serviceVars,
                   validatorVars, parserVars, chunkVars>>

\* _combine_video_frame_analyses(frame_analyses, filename), on the analyses
\* _process_video_content collected.
CombineFrames ==
    /\ op = "none"
    /\ ag_in = None
    /\ \E filename \in AggFileNames, n \in 1..MaxResults :
         \E frame_analyses \in [1..n -> PartResults(filename)] :
            /\ ag_in' = Some([fn |-> "frames", results |-> frame_analyses,
                              filename |-> filename])
            /\ ag_out' = Some(combine_video_frame_analyses(frame_analyses,
                                                           filename))
    /\ op' = "combine"
    /\ UNCHANGED <<rh, execVars, pureVars, contentVars, quizVars, serviceVars,
                   validatorVars, parserVars, chunkVars>>

NextAggregate ==
    \/ CombineChunks
    \/ CombineFrames

SpecAggregate == InitErr /\ [][NextAggregate]_vars

\* The key two entries are compared under: the trimmed value without its
\* case, of the entry or of a concept's term.
CaseFolded(txt) == Lower(Strip(txt))
EntryKey(field, x) ==
    IF field = "concepts" THEN CaseFolded(x.term) ELSE CaseFolded(x)
MergedFields == {"key_points", "concepts", "topics"}

\* The entries of the list in their order that are taken (taken[i]) and
\* have no taken entry with the same key before them, cut to MaxKept.
FirstSeenOf(items, field, taken) ==
    LET first == {i \in DOMAIN items :
                     /\ taken[i]
                     /\ \A j \in 1..(i - 1) :
                            taken[j] =>
                                EntryKey(field, items[j]) # EntryKey(field, items[i])}
        nth(n) == CHOOSE i \in first : Cardinality({j \in first : j <= i}) = n
    IN Take([n \in 1..Cardinality(first) |-> items[nth(n)]], MaxKept)

\* C16 as stated: each of key_points, concepts and topics of the combined
\* result is the union of the inputs' entries in first-seen order, without
\* entries equal to an earlier one case-insensitively after trimming, cut
\* to the first 10.
C16_MergeIsUnion ==
    op = "combine" =>
        \A field \in MergedFields :
            LET items == Flatten(Val(ag_in).results, field) IN
            Val(ag_out)[field] =
                FirstSeenOf(items, field, [i \in DOMAIN items |-> TRUE])

\* The entries a combiner merges: concepts with a non-blank term; for the
\* video combiner the key points that are not empty and do not start with
\* a bracket and the topics that are not empty; every other entry.
Merges(fn, field, x) ==
    IF field = "concepts" THEN CaseFolded(x.term) # <<>>
    ELSE IF fn = "chunks" THEN TRUE
    ELSE IF field = "key_points" THEN x # <<>> /\ ~StartsWithOpen(x)
    ELSE x # <<>>

\* C16, amended: each of key_points, concepts and topics of the combined
\* result is the union, in first-seen order, of those input entries the
\* combiner merges, without entries equal to an earlier merged one
\* case-insensitively after trimming, cut to the first 10.
C16_MergeIsUnionOfMerged ==
    op = "combine" =>
        \A field \in MergedFields :
            LET items == Flatten(Val(ag_in).results, field) IN
            Val(ag_out)[field] =
                FirstSeenOf(items, field,
                            [i \in DOMAIN items |->
                                Merges(Val(ag_in).fn, field, items[i])])

\* Two results whose key points differ in case only are combined into a
\* list with one of them, and more than 10 distinct key points are cut.
C16_Witness ==
    /\ op = "combine"
    /\ Len(Val(ag_in).results) = 2
    /\ SamePoint \in {Val(ag_in).results[1].key_points[i] :
                         i \in DOMAIN Val(ag_in).results[1].key_points}
    /\ Lower(SamePoint) \in {Val(ag_in).results[2].key_points[i] :
                                i \in DOMAIN Val(ag_in).results[2].key_points}
    /\ Len(Val(ag_out).key_points)
           < Len(Flatten(Val(ag_in).results, "key_points"))
    /\ Lower(SamePoint) \notin {Val(ag_out).key_points[i] :
                                   i \in DOMAIN Val(ag_out).key_points}

\* A title that names no content: empty, a literal stand-in, one that
\* starts with a bracket, or the file's name (with or without a part
\* marker).
WithoutMarker(title) ==
    LET marker == Find(title, PartMarker, 1) IN
    IF marker = 0 THEN title ELSE Strip(SubSeq(title, 1, marker - 1))
IsPlaceholderTitle(title, filename) ==
    \/ title \in {<<>>, ExtractedContent, Words(<<"Uploaded", "Content">>)}
    \/ StartsWithOpen(title)
    \/ WithoutMarker(title) \in {filename, Stem(filename)}

\* C18: the combined title is the title of the first input, in order, whose
\* title is no placeholder, without its "(part N/M)" marker.
C18_FirstUsableTitle ==
    op = "combine" =>
        LET results == Val(ag_in).results
            usable == {i \in DOMAIN results :
                          ~IsPlaceholderTitle(results[i].title,
                                              Val(ag_in).filename)}
        IN usable # {} =>
               Val(ag_out).title = WithoutMarker(results[Lowest(usable)].title)

\* What does hold: the combined title is the first input's title without
\* its part marker, whenever that title is no placeholder.
TitleOfFirstResult ==
    op = "combine" =>
        LET first == Val(ag_in).results[1].title IN
        ~IsPlaceholderTitle(first, Val(ag_in).filename) =>
            Val(ag_out).title = WithoutMarker(first)

\* An extraction result whose key_points, concepts and topics have at most
\* 10 entries each and no two entries equal case-insensitively after
\* trimming (concepts by term).
WithinLimits(result) ==
    \A field \in MergedFields :
        /\ Len(result[field]) <= MaxKept
        /\ \A i, j \in DOMAIN result[field] :
               i # j => EntryKey(field, result[field][i])
                        # EntryKey(field, result[field][j])

\* C17: the result process_content returns for a single-call document,
\* which is what _parse_content_response returned for the one response, has
\* at most 10 key_points, concepts and topics, each without
\* case-insensitive duplicates.
C17_ResultWithinLimits ==
    (op = "parse_content" /\ ~Val(ps_out).raises) =>
        WithinLimits(Val(ps_out).value)

\* What does hold: the results of both combiners are within the limits.
CombinedWithinLimits ==
    op = "combine" => WithinLimits(Val(ag_out))

\* ------------------------------------------------------------ chunker
MaxTextLen == 5
MaxChunkChars == 3

\* The characters of a document: a letter, a full stop, a space, a newline.
Letter == Lit("a")
Stop == Lit(".")
Chars == {Letter, Stop, Sp, Nl}

\* text.split('\n\n')
RECURSIVE SplitParagraphs(_)
SplitParagraphs(text) ==
    LET breaks == {i \in 1..(Len(text) - 1) : text[i] = Nl /\ text[i + 1] = Nl} IN
    IF breaks = {} THEN <<text>>
    ELSE LET i == Lowest(breaks) IN
         <<SubSeq(text, 1, i - 1)>>
         \o SplitParagraphs(SubSeq(text, i + 2, Len(text)))

\* re.split(r'(?<=[.!?])\s+', text): the text is cut at each run of
\* whitespace that follows a sentence end.
RECURSIVE SplitSentences(_)
SplitSentences(text) ==
    LET cuts == {i \in 2..Len(text) : text[i - 1] = Stop /\ text[i] \in WhiteSpace} IN
    IF cuts = {} THEN <<text>>
    ELSE LET i == Lowest(cuts) IN
         <<SubSeq(text, 1, i - 1)>>
         \o SplitSentences(SubSeq(text, SkipWs(text, i), Len(text)))

\* for i in range(0, len(sentence), max_chars): sentence[i:i + max_chars]
Slices(sentence, max_chars) ==
    (Len(sentence) + max_chars - 1) \div max_chars
FixedSlices_WholeOnly(sentence, max_chars) ==
    [k \in 1..(Len(sentence) \div max_chars) |->
        SubSeq(sentence, (k - 1) * max_chars + 1, k * max_chars)]
FixedSlices_TwiceAsWide(sentence, max_chars) ==
    [k \in 1..Slices(sentence, 2 * max_chars) |->
        SubSeq(sentence, (k - 1) * 2 * max_chars + 1,
               Min(k * 2 * max_chars, Len(sentence)))]
FixedSlices(sentence, max_chars) ==
    [k \in 1..Slices(sentence, max_chars) |->
        SubSeq(sentence, (k - 1) * max_chars + 1,
               Min(k * max_chars, Len(sentence)))]

\* The loop of _split_long_paragraph from the i-th sentence on, and what it
\* returns.
RECURSIVE SentenceLoop(_, _, _, _, _)
SentenceLoop(sentences, i, current_chunk, chunks, max_chars) ==
    IF i > Len(sentences)
    THEN IF current_chunk # <<>> THEN Append(chunks, Strip(current_chunk))
         ELSE chunks
    ELSE LET sentence == sentences[i] IN
         IF Len(current_chunk) + Len(sentence) + 1 > max_chars
         THEN LET closed == IF current_chunk # <<>>
                            THEN Append(chunks, Strip(current_chunk))
                            ELSE chunks
              IN IF Len(sentence) > max_chars
                 THEN SentenceLoop(sentences, i + 1, <<>>,
                                   closed \o FixedSlices(sentence, max_chars),
                                   max_chars)
                 ELSE SentenceLoop(sentences, i + 1, sentence, closed, max_chars)
         ELSE SentenceLoop(sentences, i + 1,
                           Strip(current_chunk \o <<Sp>> \o sentence),
                           chunks, max_chars)

_split_long_paragraph(text, max_chars) ==
    SentenceLoop(SplitSentences(text), 1, <<>>, <<>>, max_chars)

\* The loop of _chunk_document from the i-th paragraph on, and what it
\* returns.
RECURSIVE ParagraphLoop(_, _, _, _, _, _)
ParagraphLoop(text, paragraphs, i, current_chunk, chunks, max_chars) ==
    IF i > Len(paragraphs)
    THEN LET all == IF current_chunk # <<>>
                    THEN Append(chunks, Strip(current_chunk))
                    ELSE chunks
         IN IF all # <<>> THEN all
            ELSE <<SubSeq(text, 1, Min(max_chars, Len(text)))>>
    ELSE LET para == paragraphs[i] IN
         IF Len(current_chunk) + Len(para) + 2 > max_chars
         THEN LET closed == IF current_chunk # <<>>
                            THEN Append(chunks, Strip(current_chunk))
                            ELSE chunks
              IN IF Len(para) > max_chars
                 THEN LET para_chunks == _split_long_paragraph(para, max_chars) IN
                      ParagraphLoop(text, paragraphs, i + 1,
                                    IF para_chunks # <<>>
                                    THEN para_chunks[Len(para_chunks)] ELSE <<>>,
                                    closed \o SubSeq(para_chunks, 1,
                                                     Len(para_chunks) - 1),
                                    max_chars)
                 ELSE ParagraphLoop(text, paragraphs, i + 1, para, closed,
                                    max_chars)
         ELSE ParagraphLoop(text, paragraphs, i + 1,
                            IF current_chunk # <<>>
                            THEN current_chunk \o <<Nl, Nl>> \o para
                            ELSE para,
                            chunks, max_chars)

_chunk_document(text, max_chars) ==
    ParagraphLoop(text, SplitParagraphs(text), 1, <<>>, <<>>, max_chars)

\* The documents of up to MaxTextLen characters.
Texts == UNION {[1..n -> Chars] : n \in 0..MaxTextLen}

\* _chunk_document(text, max_chars)
ChunkDocument ==
    /\ op = "none"
    /\ ck_in = None
    /\ \E text \in Texts, max_chars \in 1..MaxChunkChars :
         /\ ck_in' = Some([text |-> text, max_chunk_chars |-> max_chars])
         /\ ck_out' = Some(_chunk_document(text, max_chars))
    /\ op' = "chunk"
    /\ UNCHANGED <<rh, execVars, pureVars, contentVars, quizVars, serviceVars,
                   validatorVars, parserVars, aggVars>>

NextChunk == ChunkDocument

SpecChunk == InitErr /\ [][NextChunk]_vars

\* C19: a text that is not empty is cut into at least one chunk, and no
\* chunk is empty or blank.
C19_NoEmptyChunk ==
    (op = "chunk" /\ Val(ck_in).text # <<>>) =>
        /\ Len(Val(ck_out)) >= 1
        /\ \A i \in DOMAIN Val(ck_out) : Strip(Val(ck_out)[i]) # <<>>

\* What does hold: there is always at least one chunk.
AtLeastOneChunk ==
    op = "chunk" => Len(Val(ck_out)) >= 1

RECURSIVE Concat(_)
Concat(chunks) ==
    IF chunks = <<>> THEN <<>> ELSE chunks[1] \o Concat(Tail(chunks))
NonBlank(text) == SelectSeq(text, LAMBDA c : c \notin WhiteSpace)

\* C20 as stated: the chunks together have at least 90% as many characters
\* as the text.
C20_NinetyPercent ==
    op = "chunk" =>
        10 * Len(Concat(Val(ck_out))) >= 9 * Len(Val(ck_in).text)

\* C20, amended: chunking loses whitespace only; the characters of the
\* chunks that are not whitespace are, in order, those of the text, and the
\* chunks together are no longer than the text.
C20_LosesOnlyWhitespace ==
    op = "chunk" =>
        /\ NonBlank(Concat(Val(ck_out))) = NonBlank(Val(ck_in).text)
        /\ Len(Concat(Val(ck_out))) <= Len(Val(ck_in).text)

\* A text with two paragraphs, one of them longer than the limit and cut at
\* fixed width, comes out in several chunks that have all its letters and
\* less than 90% of its characters.
C20_Witness ==
    /\ op = "chunk"
    /\ Len(SplitParagraphs(Val(ck_in).text)) = 2
    /\ \E i \in 1..2 :
           Len(SplitParagraphs(Val(ck_in).text)[i]) > Val(ck_in).max_chunk_chars
    /\ Len(Val(ck_out)) >= 3
    /\ NonBlank(Val(ck_in).text) # <<>>
    /\ 10 * Len(Concat(Val(ck_out))) < 9 * Len(Val(ck_in).text)

\* ------------------------------------------------------------ FrameSampler
\* VideoProcessor._calculate_frame_positions.  A frame rate and a duration
\* are non-negative rationals [num, den]; int() of a non-negative quotient
\* is its floor.
MaxTotalFrames == 24
MaxFpsNum == 3
MaxFpsDen == 2
MaxFramesArg == 5

min_frame_interval == 2

Rational(n, d) == [num |-> n, den |-> d]

\* duration = total_frames / fps if fps > 0 else 0
DurationOf(total_frames, fps) ==
    IF fps.num > 0 THEN Rational(total_frames * fps.den, fps.num)
    ELSE Rational(0, 1)

\* int(duration / self.min_frame_interval) + 1
max_possible(self, duration) ==
    (duration.num \div (duration.den * self.min_frame_interval)) + 1

num_frames_IgnoringMaxFrames(self, total_frames, duration) ==
    Min(max_possible(self, duration), total_frames)

\* min(self.max_frames, max_possible, total_frames)
num_frames(self, total_frames, duration) ==
    Min(self.max_frames, Min(max_possible(self, duration), total_frames))

\* The 5%..95% window, or the whole video when the window is empty.
FrameWindow(total_frames) ==
    LET start_frame == (total_frames * 5) \div 100
        end_frame == (total_frames * 95) \div 100
    IN  IF end_frame <= start_frame
        THEN [start_frame |-> 0, end_frame |-> total_frames - 1]
        ELSE [start_frame |-> start_frame, end_frame |-> end_frame]

_calculate_frame_positions(self, total_frames, fps, duration) ==
    IF duration.num <= 0 \/ total_frames <= 0 THEN <<>>
    ELSE LET n == num_frames(self, total_frames, duration)
             w == FrameWindow(total_frames)
             frame_range == w.end_frame - w.start_frame
         IN  IF n <= 1 THEN <<total_frames \div 2>>
             ELSE [k \in 1..n |->
                      Min(w.start_frame + ((frame_range * (k - 1)) \div (n - 1)),
                           total_frames - 1)]

FrameRates == {Rational(n, d) : n \in 0..MaxFpsNum, d \in 1..MaxFpsDen}
Processors ==
    {[max_frames |-> m, min_frame_interval |-> min_frame_interval] :
        m \in 1..MaxFramesArg}

\* extract_frames' computation of the positions, for a video of
\* total_frames frames at fps frames per second.
SampleFrames ==
    /\ op = "none"
    /\ fs_in = None
    /\ \E self \in Processors, total_frames \in 0..MaxTotalFrames,
          fps \in FrameRates :
         LET duration == DurationOf(total_frames, fps)
         IN  /\ fs_in' = Some([self |-> self, total_frames |-> total_frames,
                               fps |-> fps, duration |-> duration])
             /\ fs_out' = Some(_calculate_frame_positions(self, total_frames,
                                                          fps, duration))
    /\ op' = "sample"
    /\ UNCHANGED <<rh, execVars, pureVars, contentVars, quizVars,
                   validatorVars, parserVars, aggVars, chunkVars, messageVars,
                   cacheVars, gatewayVars, chatVars>>

NextSample == SampleFrames

SpecSample == InitErr /\ [][NextSample]_vars

\* C21: for a video of at least one frame with a positive frame rate and a
\* processor with max_frames >= 1, the positions returned are between 1 and
\* max_frames in number, each is in [0, total_frames), and they never
\* decrease.
C21_FramePositionsBounded ==
    (/\ op = "sample"
     /\ Val(fs_in).total_frames >= 1
     /\ Val(fs_in).fps.num > 0) =>
        LET positions == Val(fs_out)
            a == Val(fs_in)
        IN  /\ Len(positions) >= 1
            /\ Len(positions) <= a.self.max_frames
            /\ \A k \in DOMAIN positions :
                   positions[k] >= 0 /\ positions[k] < a.total_frames
            /\ \A k \in DOMAIN positions :
                   k > 1 => positions[k - 1] <= positions[k]

\* A video long enough for max_frames positions, with a window that starts
\* after frame 0, sampled at several positions.
C21_Witness ==
    /\ op = "sample"
    /\ Val(fs_in).fps.num > 0
    /\ Len(Val(fs_out)) = Val(fs_in).self.max_frames
    /\ Len(Val(fs_out)) >= 3
    /\ Val(fs_out)[1] > 0
    /\ max_possible(Val(fs_in).self, Val(fs_in).duration) >
           Val(fs_in).self.max_frames

\* ------------------------------------------------------------ ChatPipeline
\* AgentOrchestrator._build_chat_messages(agent, user_message, context).
\* A context is an Optional list of texts: None, or Some(list).
MaxGuidance == 2
MaxContext == 2

Message(role, content) == [role |-> role, content |-> content]

GuidanceHeader == <<Nl, Nl, Lit("Context"), Sp, Lit("Guidance:"), Nl>>
ContextHeader == <<Lit("Content"), Sp, Lit("Context:"), Nl>>
Bullet == <<Lit("-"), Sp>>

\* for guidance in agent.context_guidance: system_content += f"- {guidance}\n"
RECURSIVE GuidanceLines(_)
GuidanceLines(guidance) ==
    IF guidance = <<>> THEN <<>>
    ELSE Bullet \o guidance[1] \o <<Nl>> \o GuidanceLines(Tail(guidance))

\* "\n".join(f"- {ctx}" for ctx in context)
RECURSIVE ContextLines(_)
ContextLines(items) ==
    IF items = <<>> THEN <<>>
    ELSE IF Len(items) = 1 THEN Bullet \o items[1]
    ELSE Bullet \o items[1] \o <<Nl>> \o ContextLines(Tail(items))

ContextTruthy_NotNone(context) == context # None

\* `if context`: a list that is not None and not empty
ContextTruthy(context) == context # None /\ Val(context) # <<>>

_build_chat_messages(agent, user_message, context) ==
    LET system_content ==
            IF ContextTruthy(context) /\ agent.context_guidance # <<>>
            THEN agent.system_prompt \o GuidanceHeader
                 \o GuidanceLines(agent.context_guidance)
            ELSE agent.system_prompt
        context_text == ContextHeader \o ContextLines(Val(context))
    IN  <<Message("system", system_content)>>
        \o (IF ContextTruthy(context)
            THEN <<Message("system", context_text)>> ELSE <<>>)
        \o <<Message("user", user_message)>>

SystemPrompts == {<<>>, <<Lit("You"), Sp, Lit("are"), Sp, Lit("a"), Sp, Lit("tutor.")>>}
GuidanceItems == {<<Lit("Use"), Sp, Lit("context")>>, <<Lit("Be"), Sp, Lit("helpful")>>}
ContextItems == {<<Lit("Cells")>>, <<Lit("Mitosis"), Sp, Lit("notes")>>}
UserMessages == {<<>>, <<Lit("hi")>>, <<Sp, Lit("What"), Sp, Lit("is"), Sp, Lit("it?"), Nl>>}
ListsOver(S, n) == UNION {[1..k -> S] : k \in 0..n}
AgentPrompts ==
    {[name |-> "TutorAgent", system_prompt |-> p, context_guidance |-> g] :
        p \in SystemPrompts, g \in ListsOver(GuidanceItems, MaxGuidance)}
Contexts == {None} \cup {Some(c) : c \in ListsOver(ContextItems, MaxContext)}

BuildChatMessages ==
    /\ op = "none"
    /\ cm_in = None
    /\ \E agent \in AgentPrompts, user_message \in UserMessages,
          context \in Contexts :
         /\ cm_in' = Some([agent |-> agent, user_message |-> user_message,
                           context |-> context])
         /\ cm_out' = Some(_build_chat_messages(agent, user_message, context))
    /\ op' = "build_messages"
    /\ UNCHANGED <<rh, execVars, pureVars, contentVars, quizVars,
                   validatorVars, parserVars, aggVars, chunkVars, samplerVars,
                   cacheVars, gatewayVars, chatVars>>

NextMessages == BuildChatMessages

SpecMessages == InitErr /\ [][NextMessages]_vars

\* needle in hay
Occurs(needle, hay) ==
    \E i \in 1..(Len(hay) - Len(needle) + 1) :
        SubSeq(hay, i, i + Len(needle) - 1) = needle

Roles == {"system", "user", "assistant"}

\* What the messages have whatever the agent: the system prompt first, a
\* "Content Context:" system message second exactly when there is context,
\* with every item; the user message last and unchanged; two messages
\* without context; known roles.
LayeredAround(messages, a) ==
    LET n == Len(messages)
        with_context == a.context # None /\ Val(a.context) # <<>>
    IN  /\ n = (IF with_context THEN 3 ELSE 2)
        /\ messages[1].role = "system"
        /\ StartsWith(messages[1].content, a.agent.system_prompt)
        /\ with_context =>
              /\ messages[2].role = "system"
              /\ StartsWith(messages[2].content, ContextHeader)
              /\ \A k \in DOMAIN Val(a.context) :
                     Occurs(Bullet \o Val(a.context)[k], messages[2].content)
        /\ \A k \in 1..n :
              Occurs(ContextHeader, messages[k].content) <=> (with_context /\ k = 2)
        /\ messages[n].role = "user"
        /\ messages[n].content = a.user_message
        /\ \A k \in 1..n : messages[k].role \in Roles

\* C22 as stated: the layering, with the "Context Guidance:" list appended
\* to the system prompt if and only if context is supplied.
C22_GuidanceIffContext ==
    op = "build_messages" =>
        LET messages == Val(cm_out)
            a == Val(cm_in)
        IN  /\ LayeredAround(messages, a)
            /\ Occurs(GuidanceHeader, messages[1].content)
                   <=> (a.context # None /\ Val(a.context) # <<>>)

\* C22, amended: the layering, with the "Context Guidance:" list appended
\* to the system prompt if and only if there is context and the agent has
\* guidance; the list then holds every guidance entry, and the system
\* message is otherwise the system prompt alone.
C22_GuidanceIffContextAndGuidance ==
    op = "build_messages" =>
        LET messages == Val(cm_out)
            a == Val(cm_in)
            guided == /\ a.context # None /\ Val(a.context) # <<>>
                      /\ a.agent.context_guidance # <<>>
        IN  /\ LayeredAround(messages, a)
            /\ Occurs(GuidanceHeader, messages[1].content) <=> guided
            /\ guided =>
                  \A k \in DOMAIN a.agent.context_guidance :
                      Occurs(Bullet \o a.agent.context_guidance[k] \o <<Nl>>,
                             messages[1].content)
            /\ ~guided => messages[1].content = a.agent.system_prompt

\* Context was given to an agent that has no guidance: three messages, and
\* no "Context Guidance:" in the first.
C22_Witness ==
    /\ op = "build_messages"
    /\ Val(cm_in).context # None
    /\ Len(Val(Val(cm_in).context)) = MaxContext
    /\ Val(cm_in).agent.context_guidance = <<>>
    /\ Val(cm_in).agent.system_prompt # <<>>
    /\ Len(Val(cm_out)) = 3
    /\ ~Occurs(GuidanceHeader, Val(cm_out)[1].content)

\* ------------------------------------------------------------ C27
\* One sleep after every call of func but the last, none before the first
\* and none once execute has returned or raised; no sleep above max_delay.
OneSleepBetweenCalls ==
    /\ ex_pc = "idle" => ex_sleeps = <<>> /\ ex_hist = <<>>
    /\ ex_pc = "calling" => Len(ex_sleeps) = Len(ex_hist)
    /\ ex_pc \in {"returned", "raised"} => Len(ex_sleeps) = Len(ex_hist) - 1
    /\ \A i \in DOMAIN ex_sleeps :
          /\ ~ex_hist[i].ok /\ ex_hist[i].transient
          /\ ex_sleeps[i] <= rh.max_delay

\* C27 as stated: one sleep between consecutive calls, and the i-th sleep
\* is the i-th error's retry_after capped at max_delay whenever the error
\* carries one, the exponential delay otherwise.
C27_SleepIsAnyRetryAfter ==
    /\ OneSleepBetweenCalls
    /\ \A i \in DOMAIN ex_sleeps :
          ex_sleeps[i] = IF ex_hist[i].hint # None
                         THEN Min(Val(ex_hist[i].hint), rh.max_delay)
                         ELSE Backoff(i - 1)

\* C27, amended: one sleep between consecutive calls, and the i-th sleep
\* is calculate_delay(i, retry_after of the i-th error): the retry_after
\* capped at max_delay when the error carries a positive one, the
\* exponential delay when it carries none or one that is zero or less.
C27_SleepIsPositiveRetryAfter ==
    /\ OneSleepBetweenCalls
    /\ \A i \in DOMAIN ex_sleeps :
          /\ ex_sleeps[i] = calculate_delay(rh, i - 1, ex_hist[i].hint)
          /\ ex_sleeps[i] = IF /\ ex_hist[i].hint # None
                               /\ Val(ex_hist[i].hint) > 0
                            THEN Min(Val(ex_hist[i].hint), rh.max_delay)
                            ELSE Backoff(i - 1)

\* A run that slept twice and then succeeded: after an error whose
\* retry_after is 0, for the exponential delay, and after one whose
\* retry_after is above max_delay, for max_delay.
C27_Witness ==
    /\ ex_pc = "returned"
    /\ Len(ex_hist) = 3 /\ Len(ex_sleeps) = 2
    /\ ex_hist[1].hint = Some(0)
    /\ ex_sleeps[1] = rh.base_delay
    /\ ex_hist[2].hint # None /\ Val(ex_hist[2].hint) > rh.max_delay
    /\ ex_sleeps[2] = rh.max_delay

\* ------------------------------------------------------------ C28
\* C28: the first cycle of generate_quiz uses the normal prompt, and every
\* later cycle, which follows a cycle that ended without questions (the
\* call failed, or the response gave no valid question), uses the prompt
\* rebuilt with strict_format.
C28_StrictAfterInvalidCycle ==
    (op = "quiz" /\ qz_pc = "cycle") =>
        /\ qz_attempt = 0 => ~qz_strict
        /\ qz_attempt >= 1 => qz_strict

\* What does hold: the first cycle uses the normal prompt, a cycle that
\* follows a response parsed to no question uses the strict one, and a
\* cycle that follows an exception uses the prompt of the cycle before it.
StrictAfterEmptyParse ==
    [][(op = "quiz" /\ qz_pc = "cycle") =>
          /\ qz_attempt = 0 => ~qz_strict
          /\ (qz_pc' = "cycle" /\ qz_attempt' = qz_attempt + 1) =>
                /\ qz_last' = "no_questions" => qz_strict'
                /\ qz_last' \in {"call_raised", "parse_raised"} =>
                      qz_strict' = qz_strict
                /\ qz_strict => qz_strict']_vars

\* ------------------------------------------------------------ C30
\* C30: for every text and every max_chars >= 1, no chunk returned by
\* _chunk_document is longer than max_chars.
C30_ChunkWithinLimit ==
    op = "chunk" =>
        \A i \in DOMAIN Val(ck_out) :
            Len(Val(ck_out)[i]) <= Val(ck_in).max_chunk_chars

\* A paragraph longer than the limit was split into sentences, and
\* sentences were accumulated into a chunk of exactly max_chars characters
\* followed by another chunk.
C30_Witness ==
    /\ op = "chunk"
    /\ Len(SplitParagraphs(Val(ck_in).text)) = 1
    /\ Len(Val(ck_in).text) > Val(ck_in).max_chunk_chars
    /\ Len(SplitSentences(Val(ck_in).text)) >= 3
    /\ Len(Val(ck_out)) >= 2
    /\ Len(Val(ck_out)[1]) = Val(ck_in).max_chunk_chars
    /\ \E k \in DOMAIN Val(ck_out)[1] : Val(ck_out)[1][k] = Sp

\* ------------------------------------------------------------ prompt cache
\* AgentOrchestrator._agents and _loaded, read and written by the threads
\* of the host without a lock.  A step is one statement of the source: the
\* test of _loaded, the load and store of one agent, the assignments of
\* _loaded, the clear, the read of _agents.
MaxReloads == 1

Readers == {"get_agent", "get_all_agents"}

\* What no step of a thread on the cache changes.
CacheFrame ==
    /\ op' = "cache"
    /\ UNCHANGED <<rh, execVars, pureVars, contentVars, quizVars,
                   validatorVars, parserVars, aggVars, chunkVars, samplerVars,
                   messageVars, gatewayVars, chatVars>>

\* The value of ac_thr with thread t at r.
Thread(t, r) == [ac_thr EXCEPT ![t] = r]

\* A thread calls get_agent(name) (as process_chat, generate_quiz and
\* process_content do: _load_agents() then self._agents.get(name)) or
\* get_all_agents().
CallReader(t) ==
    /\ ac_thr[t].pc = "idle"
    /\ \E kind \in Readers, name \in AgentNames :
         ac_thr' = Thread(t, [ThreadIdle EXCEPT
                        !.pc = "check", !.kind = kind,
                        !.arg = IF kind = "get_agent" THEN name ELSE ""])
    /\ UNCHANGED <<ac_files, ac_agents, ac_loaded, ac_reloads>>
    /\ CacheFrame

\* A thread calls reload_agents().
CallReload(t) ==
    /\ ac_thr[t].pc = "idle"
    /\ ac_reloads < MaxReloads
    /\ ac_reloads' = ac_reloads + 1
    /\ ac_thr' = Thread(t, [ThreadIdle EXCEPT !.pc = "clear",
                                              !.kind = "reload_agents"])
    /\ UNCHANGED <<ac_files, ac_agents, ac_loaded>>
    /\ CacheFrame

\* self._agents.clear()
ClearAgents(t) ==
    /\ ac_thr[t].pc = "clear"
    /\ ac_agents' = {}
    /\ ac_thr' = Thread(t, [ac_thr[t] EXCEPT !.pc = "unset"])
    /\ UNCHANGED <<ac_files, ac_loaded, ac_reloads>>
    /\ CacheFrame

\* self._loaded = False, then the call of _load_agents
UnsetLoaded(t) ==
    /\ ac_thr[t].pc = "unset"
    /\ ac_loaded' = FALSE
    /\ ac_thr' = Thread(t, [ac_thr[t] EXCEPT !.pc = "check"])
    /\ UNCHANGED <<ac_files, ac_agents, ac_reloads>>
    /\ CacheFrame

\* Where a thread goes when _load_agents returns.
AfterLoad(r) == IF r.kind \in Readers THEN "read" ELSE "done"

\* _load_agents: if self._loaded: return
CheckLoaded(t) ==
    /\ ac_thr[t].pc = "check"
    /\ ac_thr' = Thread(t,
           IF ac_loaded
           THEN [ac_thr[t] EXCEPT !.pc = AfterLoad(ac_thr[t]), !.skipped = TRUE]
           ELSE [ac_thr[t] EXCEPT !.pc = "loading", !.i = 1])
    /\ UNCHANGED <<ac_files, ac_agents, ac_loaded, ac_reloads>>
    /\ CacheFrame

\* One iteration of `for agent_name in agent_names`: the agent is stored
\* when its file loads.
LoadAgent(t) ==
    /\ ac_thr[t].pc = "loading"
    /\ LET agent_name == agent_names[ac_thr[t].i] IN
       ac_agents' = IF agent_name \in ac_files
                    THEN ac_agents \cup {agent_name} ELSE ac_agents
    /\ ac_thr' = Thread(t,
           IF ac_thr[t].i = Len(agent_names)
           THEN [ac_thr[t] EXCEPT !.pc = "set", !.i = 0]
           ELSE [ac_thr[t] EXCEPT !.i = ac_thr[t].i + 1])
    /\ UNCHANGED <<ac_files, ac_loaded, ac_reloads>>
    /\ CacheFrame

\* self._loaded = True
SetLoaded(t) ==
    /\ ac_thr[t].pc = "set"
    /\ ac_loaded' = TRUE
    /\ ac_thr' = Thread(t, [ac_thr[t] EXCEPT !.pc = AfterLoad(ac_thr[t])])
    /\ UNCHANGED <<ac_files, ac_agents, ac_reloads>>
    /\ CacheFrame

\* return self._agents.get(agent_name) / return self._agents.copy()
ReadCache(t) ==
    /\ ac_thr[t].pc = "read"
    /\ ac_thr' = Thread(t, [ac_thr[t] EXCEPT
           !.pc = "done",
           !.out = Some(IF ac_thr[t].kind = "get_agent"
                        THEN ac_agents \cap {ac_thr[t].arg} ELSE ac_agents)])
    /\ UNCHANGED <<ac_files, ac_agents, ac_loaded, ac_reloads>>
    /\ CacheFrame

\* The caller has its result; the thread is free for another call.
ThreadReturns(t) ==
    /\ ac_thr[t].pc = "done"
    /\ ac_thr' = Thread(t, ThreadIdle)
    /\ UNCHANGED <<ac_files, ac_agents, ac_loaded, ac_reloads>>
    /\ CacheFrame

CacheStep(t) ==
    \/ CallReader(t)
    \/ CallReload(t)
    \/ ClearAgents(t)
    \/ UnsetLoaded(t)
    \/ CheckLoaded(t)
    \/ LoadAgent(t)
    \/ SetLoaded(t)
    \/ ReadCache(t)
    \/ ThreadReturns(t)

NextCache == \E t \in Threads : CacheStep(t)

\* Any of the prompt files may be missing or unreadable.
InitCache ==
    /\ rh = [max_attempts |-> 1, base_delay |-> 1, max_delay |-> 1]
    /\ Settled
    /\ ac_files \in SUBSET AgentNames
    /\ gw = DefaultClient

SpecCache == InitCache /\ [][NextCache]_vars

\* What a reader obtains when every loadable agent is in the cache.
FullyLoaded(r) ==
    IF r.kind = "get_agent" THEN ac_files \cap {r.arg} ELSE ac_files

\* C26: under any interleaving, every reader obtains each agent whose
\* prompt file is loadable, and no reader that found the loaded flag set
\* misses an agent in the cache.
C26_ReadersSeeLoadedAgents ==
    \A t \in Threads :
        (ac_thr[t].pc = "done" /\ ac_thr[t].kind \in Readers) =>
            Val(ac_thr[t].out) = FullyLoaded(ac_thr[t])

\* What does hold: as long as no thread has called reload_agents, every
\* reader obtains each loadable agent, the loaded flag is set only when the
\* cache holds them all, and the cache never holds another agent.
ReadersSafeWithoutReload ==
    /\ ac_agents \subseteq ac_files
    /\ ac_reloads = 0 =>
          /\ ac_loaded => ac_agents = ac_files
          /\ \A t \in Threads :
                (ac_thr[t].pc = "done" /\ ac_thr[t].kind \in Readers) =>
                    Val(ac_thr[t].out) = FullyLoaded(ac_thr[t])

\* ------------------------------------------------------------ ModelGateway
\* NebiusClient.chat_completion, vision_completion and create_embedding.
\* What a call returns or raises, in one shape: a string, a generator (the
\* items it will yield and the error, if any, its iteration ends with), an
\* embedding vector, or an exception.
MaxDeltas == 1

PreviewChars == 100
EmbeddingSize == 4096

GwText(txt) ==
    [kind |-> "text", text |-> txt, items |-> <<>>, fails |-> None,
     dim |-> 0, err |-> None]
GwStream(items, fails) ==
    [kind |-> "stream", text |-> <<>>, items |-> items, fails |-> fails,
     dim |-> 0, err |-> None]
GwVector(dim, origin) ==
    [kind |-> "vector", text |-> <<Lit(origin)>>, items |-> <<>>,
     fails |-> None, dim |-> dim, err |-> None]
GwRaises(e) ==
    [kind |-> "raises", text |-> <<>>, items |-> <<>>, fails |-> None,
     dim |-> 0, err |-> Some(e)]

\* One request to the backend (self._client.chat.completions.create or
\* self._client.embeddings.create) with its keyword arguments.
BackendCall(endpoint, model, payload, temperature, max_tokens, stream) ==
    [endpoint |-> endpoint, model |-> model, payload |-> payload,
     temperature |-> temperature, max_tokens |-> max_tokens,
     stream |-> stream]

\* How the backend answers one request: a response (its message content,
\* None when the model sent none; for a stream its chunks' delta contents
\* and the error that interrupts it, if any) or an exception.
BackendOk(content, chunks, fails) ==
    [ok |-> TRUE, content |-> content, chunks |-> chunks, fails |-> fails,
     empty |-> FALSE, err |-> None]
BackendFails(e) ==
    [ok |-> FALSE, content |-> None, chunks |-> <<>>, fails |-> None,
     empty |-> FALSE, err |-> Some(e)]
\* A response whose `choices` (or `data`) list is empty.
BackendEmpty ==
    [ok |-> TRUE, content |-> None, chunks |-> <<>>, fails |-> None,
     empty |-> TRUE, err |-> None]

\* response.choices[0] / response.data[0] on an empty list
IndexError ==
    [cls |-> "IndexError", msg |-> "m1", retry_after |-> None,
     status_code |-> 0, header |-> None]

\* What the try block of one attempt raises, if anything: the request's
\* error, or the IndexError of reading an empty response. A streamed
\* response is not read inside the try block.
AttemptError(response, stream) ==
    IF ~response.ok THEN response.err
    ELSE IF response.empty /\ ~stream THEN Some(IndexError)
    ELSE None

\* ModelConfig.get_model_id_with_fallback
get_model_id_with_fallback(model_config, use_fallback) ==
    IF /\ use_fallback
       /\ model_config.fallback_model_id # None
       /\ Val(model_config.fallback_model_id) # ""
    THEN Val(model_config.fallback_model_id)
    ELSE model_config.model_id

\* `if not use_fallback and model_config.fallback_model_id`
TriesFallback(model_config, use_fallback) ==
    /\ ~use_fallback
    /\ model_config.fallback_model_id # None
    /\ Val(model_config.fallback_model_id) # ""

retry_model_SameModel(model_config) == model_config.model_id

\* model=model_config.fallback_model_id of the retry
retry_model(model_config) == Val(model_config.fallback_model_id)

\* `x if x is not None else default`
OrDefault(x, default) == IF x # None THEN Val(x) ELSE default

\* Words of a literal with single spaces between them.
RECURSIVE Spaced(_)
Spaced(ws) ==
    IF ws = <<>> THEN <<>>
    ELSE IF Len(ws) = 1 THEN <<Lit(ws[1])>>
    ELSE <<Lit(ws[1]), Sp>> \o Spaced(Tail(ws))

\* text[:n], cut between parts
Cut(txt, n) ==
    LET fits == {k \in 0..Len(txt) : CharLen(SubSeq(txt, 1, k)) <= n}
    IN  SubSeq(txt, 1, CHOOSE k \in fits : \A m \in fits : m <= k)

\* f"{text[:100]}{'...' if len(text) > 100 else ''}"
Preview(txt) ==
    Cut(txt, PreviewChars)
    \o (IF CharLen(txt) > PreviewChars THEN <<Lit("...")>> ELSE <<>>)

FallbackBanner ==
    <<Lit("(warning sign)"), Sp>> \o Spaced(<<"**Fallback", "Mode", "Active**">>)
    \o <<Nl, Nl>>
PlaceholderLine == Spaced(<<"_This", "is", "a", "placeholder", "response._">>)
HowToEnable(what) ==
    Spaced(<<"**To", "enable", "real", "AI">>) \o <<Sp>> \o what \o <<Nl>>
    \o Spaced(<<"1.", "Set", "the">>) \o <<Sp, Tick, Lit("NEBIUS_API_KEY"), Tick, Sp>>
    \o Spaced(<<"environment", "variable">>) \o <<Nl>>
    \o Spaced(<<"2.", "Restart", "the", "backend", "server">>) \o <<Nl, Nl>>
    \o PlaceholderLine

\* The content of the last message whose role is user ("" when none).
LastUserMessage(messages) ==
    LET users == {k \in DOMAIN messages : messages[k].role = "user"} IN
    IF users = {} THEN <<>>
    ELSE messages[CHOOSE k \in users : \A m \in users : m <= k].content

\* "Content Context:" in msg.get("content", "") for some message
HasContext(messages) ==
    \E k \in DOMAIN messages :
        \E j \in 1..(Len(messages[k].content) - 2) :
            SubSeq(messages[k].content, j, j + 2)
                = <<Lit("Content"), Sp, Lit("Context:")>>

fallback_text(messages) ==
    FallbackBanner
    \o Spaced(<<"I", "received", "your", "message:">>)
    \o <<Sp, Quote>> \o Preview(LastUserMessage(messages)) \o <<Quote, Nl, Nl>>
    \o (IF HasContext(messages)
        THEN Spaced(<<"I", "have", "context", "from", "your", "uploaded",
                      "content,", "but", "the", "AI", "service", "is",
                      "currently", "unavailable.">>)
        ELSE Spaced(<<"The", "AI", "service", "is", "currently",
                      "unavailable.">>))
    \o <<Nl, Nl>> \o HowToEnable(<<Lit("responses:**")>>)

\* The positions of the spaces of txt between lo and hi, ascending.
RECURSIVE SpacesIn(_, _, _)
SpacesIn(txt, lo, hi) ==
    IF lo > hi THEN <<>>
    ELSE IF lo = hi THEN (IF txt[lo] = Sp THEN <<lo>> ELSE <<>>)
    ELSE SpacesIn(txt, lo, (lo + hi) \div 2)
         \o SpacesIn(txt, (lo + hi) \div 2 + 1, hi)

\* fallback_text.split(' '), each word but the last with its space back
StreamWords(txt) ==
    LET at == SpacesIn(txt, 1, Len(txt))
        n == Len(at)
    IN  [j \in 1..(n + 1) |->
            SubSeq(txt, IF j = 1 THEN 1 ELSE at[j - 1] + 1,
                        IF j = n + 1 THEN Len(txt) ELSE at[j])]

\* NebiusClient._fallback_chat_response
_fallback_chat_response(messages, stream) ==
    IF stream THEN GwStream(StreamWords(fallback_text(messages)), None)
    ELSE GwText(fallback_text(messages))

\* NebiusClient._fallback_vision_response
_fallback_vision_response(prompt) ==
    GwText(FallbackBanner
           \o Spaced(<<"Vision", "analysis", "requested", "with", "prompt:">>)
           \o <<Sp, Quote>> \o Preview(prompt) \o <<Quote, Nl, Nl>>
           \o Spaced(<<"The", "AI", "vision", "service", "is", "currently",
                       "unavailable.">>)
           \o <<Nl, Nl>>
           \o HowToEnable(<<Lit("vision"), Sp, Lit("analysis:**")>>))

\* NebiusClient._fallback_embedding: [0.0] * 4096
_fallback_embedding == GwVector(EmbeddingSize, "zeros")

\* NebiusClient._stream_response: the chunks that have content, then the
\* error of the response's iteration.
RECURSIVE Contents(_)
Contents(chunks) ==
    IF chunks = <<>> THEN <<>>
    ELSE (IF chunks[1] # None /\ Val(chunks[1]) # <<>>
          THEN <<Val(chunks[1])>> ELSE <<>>) \o Contents(Tail(chunks))
_stream_response(response) ==
    IF response.empty THEN GwStream(<<>>, Some(IndexError))
    ELSE GwStream(Contents(response.chunks), response.fails)

\* NebiusClient.chat_completion; outs are the backend's answers to the
\* requests the call makes, in order.
RECURSIVE chat_completion(_, _, _)
chat_completion(self, a, outs) ==
    IF self.fallback_mode
    THEN [backend |-> <<>>,
          result |-> _fallback_chat_response(a.messages, a.stream)]
    ELSE LET model_config == self.config.tutor_model
             model == IF a.model = None
                      THEN get_model_id_with_fallback(model_config, a.use_fallback)
                      ELSE Val(a.model)
             request == BackendCall("chat.completions", model, a.messages,
                            OrDefault(a.temperature, model_config.temperature),
                            OrDefault(a.max_tokens, model_config.max_tokens),
                            a.stream)
             response == outs[1]
             raised == AttemptError(response, a.stream)
         IN  IF raised = None
             THEN [backend |-> <<request>>,
                   result |-> IF a.stream THEN _stream_response(response)
                              ELSE GwText(OrDefault(response.content, <<>>))]
             ELSE IF TriesFallback(model_config, a.use_fallback)
             THEN LET again == chat_completion(self,
                                  [a EXCEPT !.model = Some(retry_model(model_config)),
                                            !.use_fallback = TRUE],
                                  Tail(outs))
                  IN  [backend |-> <<request>> \o again.backend,
                       result |-> again.result]
             ELSE [backend |-> <<request>>, result |-> GwRaises(Val(raised))]

ImageUrl == Lit("data:image/jpeg;base64,<image>")

\* NebiusClient.vision_completion
RECURSIVE vision_completion(_, _, _)
vision_completion(self, a, outs) ==
    IF self.fallback_mode
    THEN [backend |-> <<>>, result |-> _fallback_vision_response(a.prompt)]
    ELSE LET model_config == self.config.vision_model
             model == IF a.model = None
                      THEN get_model_id_with_fallback(model_config, a.use_fallback)
                      ELSE Val(a.model)
             request == BackendCall("chat.completions", model,
                            <<[role |-> "user", content |-> a.prompt \o <<ImageUrl>>]>>,
                            OrDefault(a.temperature, model_config.temperature),
                            OrDefault(a.max_tokens, model_config.max_tokens),
                            FALSE)
             response == outs[1]
             raised == AttemptError(response, FALSE)
         IN  IF raised = None
             THEN [backend |-> <<request>>,
                   result |-> GwText(OrDefault(response.content, <<>>))]
             ELSE IF TriesFallback(model_config, a.use_fallback)
             THEN LET again == vision_completion(self,
                                  [a EXCEPT !.model = Some(retry_model(model_config)),
                                            !.use_fallback = TRUE],
                                  Tail(outs))
                  IN  [backend |-> <<request>> \o again.backend,
                       result |-> again.result]
             ELSE [backend |-> <<request>>, result |-> GwRaises(Val(raised))]

\* NebiusClient.create_embedding
RECURSIVE create_embedding(_, _, _)
create_embedding(self, a, outs) ==
    IF self.fallback_mode
    THEN [backend |-> <<>>, result |-> _fallback_embedding]
    ELSE LET model_config == self.config.embedding_model
             model == IF a.model = None
                      THEN get_model_id_with_fallback(model_config, a.use_fallback)
                      ELSE Val(a.model)
             request == BackendCall("embeddings", model,
                            <<[role |-> "input", content |-> a.prompt]>>,
                            0, 0, FALSE)
             response == outs[1]
             raised == AttemptError(response, FALSE)
         IN  IF raised = None
             THEN [backend |-> <<request>>,
                   result |-> GwVector(EmbeddingSize, "backend")]
             ELSE IF TriesFallback(model_config, a.use_fallback)
             THEN LET again == create_embedding(self,
                                  [a EXCEPT !.model = Some(retry_model(model_config)),
                                            !.use_fallback = TRUE],
                                  Tail(outs))
                  IN  [backend |-> <<request>> \o again.backend,
                       result |-> again.result]
             ELSE [backend |-> <<request>>, result |-> GwRaises(Val(raised))]

GatewayKeys == {None, Some(""), Some("key")}
FallbackIds == {None, Some(""), Some("fallback-model")}
Gateways ==
    {_initialize_client(NebiusConfig(k, fb), ok) :
        k \in GatewayKeys, fb \in FallbackIds, ok \in BOOLEAN}

\* A message of PreviewChars + 1 characters.
FiftyChars == "xxxxxxxxxxxxxxxxxxxxxxxxxxxxxxxxxxxxxxxxxxxxxxxxxx"
LongMessage == <<Lit(FiftyChars), Lit(FiftyChars), Lit("x")>>
TutorPrompt ==
    [name |-> "TutorAgent", system_prompt |-> <<Lit("You"), Sp, Lit("tutor.")>>,
     context_guidance |-> <<>>]
ChatRequests ==
    {_build_chat_messages(TutorPrompt, m, c) :
        m \in {<<Lit("What"), Sp, Lit("is"), Sp, Lit("it?")>>, LongMessage},
        c \in {None, Some(<<<<Lit("Cells")>>>>)}}

BackendErrors ==
    {e \in GatewayErrors :
        /\ e.cls \in {"APITimeoutError", "OpenAIAuthError"}
        /\ e.msg = "m1" /\ e.retry_after = None}
StreamError == CHOOSE e \in BackendErrors : e.cls = "APITimeoutError"
ReplyText == <<Lit("Cells"), Sp, Lit("divide.")>>
Deltas == {Some(<<Lit("Cells")>>), Some(<<>>), None}
BackendOutcomes(stream) ==
    {BackendFails(e) : e \in BackendErrors} \cup {BackendEmpty}
    \cup (IF stream
          THEN {BackendOk(None, ch, f) :
                   ch \in ListsOver(Deltas, MaxDeltas),
                   f \in {None, Some(StreamError)}}
          ELSE {BackendOk(c, <<>>, None) : c \in {None, Some(ReplyText)}})
\* The backend's answers to the requests of one call, in order.
BackendAnswers(stream) ==
    {<<o1, o2>> : o1 \in BackendOutcomes(stream),
                  o2 \in {BackendFails(StreamError), BackendEmpty,
                          IF stream THEN BackendOk(None, <<Some(ReplyText)>>, None)
                          ELSE BackendOk(Some(ReplyText), <<>>, None)}}

\* The keyword arguments of one gateway call, absent ones at their defaults.
GatewayArgs(messages, prompt, model, temperature, max_tokens, stream, use_fallback) ==
    [messages |-> messages, prompt |-> prompt, model |-> model,
     temperature |-> temperature, max_tokens |-> max_tokens,
     stream |-> stream, use_fallback |-> use_fallback]
ModelArgs == {None, Some("other-model")}
TuningArgs == {<<None, None>>, <<Some(1), Some(64)>>}

GatewayFrame ==
    /\ op' = "gateway"
    /\ UNCHANGED <<rh, execVars, pureVars, contentVars, quizVars,
                   validatorVars, parserVars, aggVars, chunkVars, samplerVars,
                   messageVars, cacheVars, chatVars>>

ChatCompletion ==
    /\ gw_call = None
    /\ \E messages \in ChatRequests, model \in ModelArgs, tp \in TuningArgs,
          stream \in BOOLEAN, use_fallback \in BOOLEAN :
         \E outs \in BackendAnswers(stream) :
            LET a == GatewayArgs(messages, <<>>, model, tp[1], tp[2], stream,
                                 use_fallback)
                r == chat_completion(gw, a, outs)
            IN  /\ gw_call' = Some([api |-> "chat", args |-> a,
                                   outs |-> SubSeq(outs, 1, Len(r.backend))])
                /\ gw_backend' = r.backend
                /\ gw_out' = Some(r.result)
                /\ gw_end' = IF r.result.kind = "stream" THEN "open" ELSE "none"
    /\ UNCHANGED <<gw, gw_got>>
    /\ GatewayFrame

VisionCompletion ==
    /\ gw_call = None
    /\ \E prompt \in {<<Lit("Describe")>>, LongMessage}, model \in ModelArgs,
          tp \in TuningArgs, use_fallback \in BOOLEAN :
         \E outs \in BackendAnswers(FALSE) :
            LET a == GatewayArgs(<<>>, prompt, model, tp[1], tp[2], FALSE,
                                 use_fallback)
                r == vision_completion(gw, a, outs)
            IN  /\ gw_call' = Some([api |-> "vision", args |-> a,
                                   outs |-> SubSeq(outs, 1, Len(r.backend))])
                /\ gw_backend' = r.backend
                /\ gw_out' = Some(r.result)
    /\ UNCHANGED <<gw, gw_got, gw_end>>
    /\ GatewayFrame

CreateEmbedding ==
    /\ gw_call = None
    /\ \E text \in {<<Lit("Cells")>>, <<>>}, model \in ModelArgs,
          use_fallback \in BOOLEAN :
         \E outs \in BackendAnswers(FALSE) :
            LET a == GatewayArgs(<<>>, text, model, None, None, FALSE,
                                 use_fallback)
                r == create_embedding(gw, a, outs)
            IN  /\ gw_call' = Some([api |-> "embedding", args |-> a,
                                   outs |-> SubSeq(outs, 1, Len(r.backend))])
                /\ gw_backend' = r.backend
                /\ gw_out' = Some(r.result)
    /\ UNCHANGED <<gw, gw_got, gw_end>>
    /\ GatewayFrame

\* The caller's next() on the generator a streaming call returned.
NextItem ==
    /\ gw_end = "open"
    /\ LET g == Val(gw_out) IN
       IF Len(gw_got) < Len(g.items)
       THEN /\ gw_got' = Append(gw_got, g.items[Len(gw_got) + 1])
            /\ gw_end' = gw_end
       ELSE /\ gw_got' = gw_got
            /\ gw_end' = IF g.fails # None THEN "raised" ELSE "ended"
    /\ UNCHANGED <<gw, gw_call, gw_backend, gw_out>>
    /\ GatewayFrame

\* The caller is done with the result and may call again.
GatewayIdle ==
    /\ gw_call # None
    /\ gw_end # "open"
    /\ gw_call' = None
    /\ gw_backend' = <<>>
    /\ gw_out' = None
    /\ gw_got' = <<>>
    /\ gw_end' = "none"
    /\ gw' = gw
    /\ op' = "none"
    /\ UNCHANGED <<rh, execVars, pureVars, contentVars, quizVars,
                   validatorVars, parserVars, aggVars, chunkVars, samplerVars,
                   messageVars, cacheVars, chatVars>>

NextGateway ==
    \/ ChatCompletion
    \/ VisionCompletion
    \/ CreateEmbedding
    \/ NextItem
    \/ GatewayIdle

InitGateway ==
    /\ rh = [max_attempts |-> 1, base_delay |-> 1, max_delay |-> 1]
    /\ Settled
    /\ ac_files = AgentNames
    /\ gw \in Gateways

SpecGateway == InitGateway /\ [][NextGateway]_vars

\* The model configuration a gateway method reads.
ConfigOf(api) ==
    IF api = "chat" THEN gw.config.tutor_model
    ELSE IF api = "vision" THEN gw.config.vision_model
    ELSE gw.config.embedding_model

\* C25: one gateway call (chat, vision or embedding) makes at most two
\* backend requests; a second one is made only when the first attempt raised,
\* the call was not itself a fallback call and a fallback_model_id is
\* configured; it differs from the first in the model alone, which is the
\* fallback model id; and when it fails too its error is what the call
\* raises.
C25_AtMostOneFallbackRetry ==
    gw_call # None =>
        LET c == Val(gw_call)
            a == c.args
            model_config == ConfigOf(c.api)
        IN  /\ Len(gw_backend) <= 2
            /\ Len(gw_backend) = 2 =>
                 /\ AttemptError(c.outs[1], a.stream) # None
                 /\ ~a.use_fallback
                 /\ model_config.fallback_model_id \notin {None, Some("")}
                 /\ gw_backend[2]
                      = [gw_backend[1] EXCEPT
                            !.model = Val(model_config.fallback_model_id)]
                 /\ AttemptError(c.outs[2], a.stream) # None
                      => Val(gw_out)
                           = GwRaises(Val(AttemptError(c.outs[2], a.stream)))

C25_Witness ==
    /\ gw_call # None
    /\ Len(gw_backend) = 2
    /\ gw_backend[2].model # gw_backend[1].model
    /\ Val(gw_out).kind = "raises"

\* A text that announces the fallback mode and calls itself a placeholder.
LabelledPlaceholder(txt) ==
    /\ Occurs(Spaced(<<"**Fallback", "Mode", "Active**">>), txt)
    /\ Occurs(PlaceholderLine, txt)

\* What a fallback-mode call did, whatever it returned: no backend request,
\* no exception from the call or from consuming its stream, and a stream
\* that, once consumed, has delivered exactly the words of a labelled text.
FallbackCallIsQuiet ==
    /\ gw_backend = <<>>
    /\ Val(gw_out).kind # "raises"
    /\ gw_end # "raised"
    /\ Val(gw_out).kind = "text" => LabelledPlaceholder(Val(gw_out).text)
    /\ Val(gw_out).kind = "stream" =>
         /\ Val(gw_out).fails = None
         /\ LabelledPlaceholder(Concat(Val(gw_out).items))
         /\ gw_end = "ended" => gw_got = Val(gw_out).items

NoKeyMeansFallback ==
    gw.config.api_key \in {None, Some("")} => gw.fallback_mode

\* C24 as stated: without an API key the gateway is in fallback mode and
\* stays in it, and in fallback mode every chat, vision and embedding call
\* returns labelled placeholder content without a backend request, without
\* raising and without changing the gateway.
C24_EveryFallbackResultLabelled ==
    /\ [](/\ NoKeyMeansFallback
          /\ (gw.fallback_mode /\ gw_call # None) =>
                /\ FallbackCallIsQuiet
                /\ Val(gw_out).kind \in {"text", "stream"})
    /\ [][gw' = gw]_vars

\* C24, amended: the same, except that an embedding call returns a vector
\* of EmbeddingSize zeros, which carries no label.
C24_FallbackTextLabelledEmbeddingZeros ==
    /\ [](/\ NoKeyMeansFallback
          /\ (gw.fallback_mode /\ gw_call # None) =>
                /\ FallbackCallIsQuiet
                /\ IF Val(gw_call).api = "embedding"
                   THEN Val(gw_out) = _fallback_embedding
                   ELSE Val(gw_out).kind \in {"text", "stream"})
    /\ [][gw' = gw]_vars

C24_Witness ==
    /\ gw.config.api_key = None
    /\ gw_call # None
    /\ Val(gw_call).api = "chat"
    /\ Val(gw_call).args.stream
    /\ gw_end = "ended"
    /\ Len(gw_got) > 1

\* ------------------------------------------------------------ ChatPipeline
\* AgentOrchestrator.process_chat and the caller's iteration of what it
\* returns.
NoTutorMessage == Words(<<"TutorAgent", "is", "not", "available.">>)

CallsThroughExecutor_Always(stream) == TRUE

\* `if stream: return chat_completion(...) else: execute(chat_completion, ...)`
CallsThroughExecutor(stream) == ~stream

\* The keyword arguments process_chat gives chat_completion.
ChatArgsOf(messages, stream) ==
    GatewayArgs(messages, <<>>, Some(gw.config.tutor_model.model_id),
                Some(gw.config.tutor_model.temperature),
                Some(gw.config.tutor_model.max_tokens), stream, FALSE)

\* `return error_msg`, or the generator error_stream() that yields it.
ChatReturnsMessage(stream, msg) ==
    /\ ch_out' = Some(IF stream THEN GwStream(<<msg>>, None) ELSE GwText(msg))
    /\ ch_end' = IF stream THEN "open" ELSE "none"
    /\ ch_pc' = "returned"

\* `return` of what chat_completion (or execute) returned.
ChatReturnsValue(r) ==
    /\ ch_out' = Some(r)
    /\ ch_end' = IF r.kind = "stream" THEN "open" ELSE "none"
    /\ ch_pc' = "returned"

ChatFrame ==
    UNCHANGED <<rh, pureVars, contentVars, quizVars, validatorVars,
                parserVars, aggVars, chunkVars, samplerVars, messageVars,
                gatewayVars>>

ChatMessages == {<<Lit("hi")>>, <<Lit("What"), Sp, Lit("is"), Sp, Lit("it?")>>}
ChatContexts == {None, Some(<<<<Lit("Cells")>>>>)}

\* process_chat up to its first return or to the entry of execute.
ProcessChat ==
    /\ op = "none" /\ ch_pc = "idle"
    /\ op' = "chat"
    /\ ac_agents' = (IF ac_loaded THEN ac_agents ELSE ac_files)
    /\ ac_loaded' = TRUE
    /\ \E message \in ChatMessages, context \in ChatContexts, stream \in BOOLEAN :
         LET tutor == "TutorAgent" \in ac_agents'
             messages == _build_chat_messages(TutorPrompt, message, context)
         IN  /\ ch_in' = Some([message |-> message, context |-> context,
                               stream |-> stream, tutor |-> tutor])
             /\ IF ~tutor
                THEN /\ ChatReturnsMessage(stream, NoTutorMessage)
                     /\ ch_calls' = 0 /\ ch_err' = None
                     /\ UNCHANGED execVars
                ELSE IF CallsThroughExecutor(stream)
                THEN /\ ExecEnter
                     /\ ch_pc' = "executing"
                     /\ ch_calls' = 0 /\ ch_err' = None
                     /\ ch_out' = None /\ ch_end' = "none"
                ELSE /\ \E outs \in BackendAnswers(stream) :
                          LET r == chat_completion(gw, ChatArgsOf(messages, stream),
                                                   outs).result
                          IN  IF r.kind = "raises"
                              THEN /\ ChatReturnsMessage(stream,
                                        from_exception(Val(r.err)).user_message)
                                   /\ ch_err' = r.err
                              ELSE /\ ChatReturnsValue(r)
                                   /\ ch_err' = r.fails
                     /\ ch_calls' = 1
                     /\ UNCHANGED execVars
    /\ ch_got' = <<>>
    /\ UNCHANGED <<ac_files, ac_thr, ac_reloads>>
    /\ ChatFrame

\* One call of chat_completion made by execute.
ChatAttempt ==
    /\ op = "chat" /\ ch_pc = "executing" /\ ex_pc = "calling"
    /\ LET inp == Val(ch_in)
           messages == _build_chat_messages(TutorPrompt, inp.message, inp.context)
       IN  \E outs \in BackendAnswers(inp.stream) :
              LET r == chat_completion(gw, ChatArgsOf(messages, inp.stream),
                                       outs).result
              IN  IF r.kind = "raises" THEN ExecRaisesBody(Val(r.err))
                  ELSE ExecReturnsBody(r)
    /\ ch_calls' = ch_calls + 1
    /\ UNCHANGED <<op, cacheVars, ch_in, ch_pc, ch_err, ch_out, ch_got, ch_end>>
    /\ ChatFrame

\* process_chat from execute's return or raise on.
ChatExecuteOver ==
    /\ op = "chat" /\ ch_pc = "executing" /\ ExecOver
    /\ IF ex_result.kind = "error"
       THEN /\ ChatReturnsMessage(Val(ch_in).stream,
                                  from_exception(ex_result.err).user_message)
            /\ ch_err' = Some(ex_result.err)
       ELSE /\ ChatReturnsValue(ex_result.val)
            /\ ch_err' = ex_result.val.fails
    /\ ExecLeave
    /\ UNCHANGED <<op, cacheVars, ch_in, ch_calls, ch_got>>
    /\ ChatFrame

\* The caller's next() on the generator process_chat returned.
ChatNextItem ==
    /\ op = "chat" /\ ch_pc = "returned" /\ ch_end = "open"
    /\ LET g == Val(ch_out) IN
       IF Len(ch_got) < Len(g.items)
       THEN /\ ch_got' = Append(ch_got, g.items[Len(ch_got) + 1])
            /\ ch_end' = ch_end
       ELSE /\ ch_got' = ch_got
            /\ ch_end' = IF g.fails # None THEN "raised" ELSE "ended"
    /\ UNCHANGED <<op, execVars, cacheVars, ch_in, ch_pc, ch_calls, ch_err, ch_out>>
    /\ ChatFrame

NextChat ==
    \/ ProcessChat
    \/ ChatAttempt
    \/ ChatExecuteOver
    \/ ChatNextItem

ChatGateways ==
    {DefaultClient,
     _initialize_client(NebiusConfig(Some("key"), None), TRUE),
     _initialize_client(NebiusConfig(None, Some("fallback-model")), TRUE)}

InitChat ==
    /\ rh \in { c \in RetryConfigs : c.base_delay = 1 /\ c.max_delay = 1 }
    /\ Settled
    /\ ac_files \in {AgentNames, AgentNames \ {"TutorAgent"}}
    /\ gw \in ChatGateways

SpecChat == InitChat /\ [][NextChat]_vars

\* The user-safe message of the error the model call failed with.
SafeMessage == from_exception(Val(ch_err)).user_message

\* C23: whenever the model call failed, process_chat delivers the single
\* user-safe message instead of raising: with stream=False it returns that
\* string; with stream=True the caller's iteration does not raise and, once
\* over, has yielded that message alone, whether the call failed when it was
\* issued or while its stream was consumed.
C23_AnyFailureBecomesOneMessage ==
    (ch_pc = "returned" /\ ch_err # None) =>
        IF ~Val(ch_in).stream
        THEN ch_out = Some(GwText(SafeMessage))
        ELSE /\ ch_end # "raised"
             /\ ch_end = "ended" => ch_got = <<SafeMessage>>

\* What the code does deliver: a failure raised by the call itself, in
\* either mode, becomes the one message.
FailureAtIssueBecomesOneMessage ==
    (ch_pc = "returned" /\ ch_err # None /\ Val(ch_out).fails = None) =>
        /\ ch_out = Some(IF Val(ch_in).stream THEN GwStream(<<SafeMessage>>, None)
                         ELSE GwText(SafeMessage))
        /\ ch_end # "raised"
        /\ ch_end = "ended" => ch_got = <<SafeMessage>>

\* C29: with TutorAgent loaded, a streaming process_chat calls the client's
\* chat_completion exactly once, outside execute and without a sleep,
\* whatever error the call raises; a non-streaming one calls it only as
\* execute's func, once per attempt and at most max_attempts times, and
\* when execute gives up on a retryable error it has made max_attempts
\* calls with a sleep between each two.
C29_StreamingBypassesExecutor ==
    (ch_in # None /\ Val(ch_in).tutor) =>
        IF Val(ch_in).stream
        THEN /\ ch_calls = 1
             /\ ExecIdle
        ELSE /\ ch_calls <= rh.max_attempts
             /\ ch_pc = "executing" =>
                  /\ ch_calls = Len(ex_hist)
                  /\ (ex_pc = "raised" /\ should_retry(ex_result.err)) =>
                        /\ ch_calls = rh.max_attempts
                        /\ Len(ex_sleeps) = rh.max_attempts - 1

C29_Witness ==
    /\ ch_in # None /\ Val(ch_in).tutor /\ Val(ch_in).stream
    /\ ch_err # None /\ should_retry(Val(ch_err))
    /\ ch_calls = 1

C29_WitnessRetried ==
    /\ ch_in # None /\ Val(ch_in).tutor /\ ~Val(ch_in).stream
    /\ ch_pc = "executing" /\ ex_pc = "raised"
    /\ should_retry(ex_result.err)
    /\ ch_calls = 3

====
